---- MODULE Spec2Model ----
(***************************************************************************)
(* Read-along reader (src/web/reader.js, class ReadAlongReader): the       *)
(* synchronized playback engine as a state machine.  One action per event  *)
(* handler; the <audio> element and the browser's timers are modelled as   *)
(* far as the handlers observe them.                                       *)
(*                                                                         *)
(* Conventions                                                             *)
(*  - JavaScript indices are kept 0-based (currentSentenceIndex = -1 means *)
(*    "none"); entry i of the code is entries[i+1] of a TLA+ sequence.     *)
(*  - Times are whole seconds.  Date.now() is the variable now; the code's *)
(*    milliseconds are seconds * 1000 on both sides of every comparison.   *)
(*  - null / undefined are the string Null where the other values are     *)
(*    strings, and the empty tuple None where they are numbers: a deadline *)
(*    t is <<t>>.                                                          *)
(***************************************************************************)
EXTENDS Integers, Sequences, FiniteSets, TLC

VARIABLES
    bookData,              \* this.bookData: Null or the manifest's bookId
    timingData,            \* this.timingData.chapters (<<>> before a book is loaded)
    audioBasePath,         \* this.audioBasePath (Null in folder mode)
    audioFiles,            \* this.audioFiles: chapters whose audio file is in the folder
    textData,              \* this.textData.chapters (<<>> before a book is loaded)
    notes,                 \* this.notes
    bookmarks,             \* this.bookmarks
    highlights,            \* this.highlights
    storage,               \* localStorage item 'readalong-bookdata': None or <<text>>
    progress,              \* localStorage items 'readalong-progress-<bookId>', by bookId
    storageFull,           \* localStorage.setItem throws (the quota is exceeded)
    download,              \* the content of the file downloaded last: None or <<content>>
    searchPanel,           \* what the search modal shows: None or <<[results, count, items]>>
    searchMatch,           \* the rendered .sentence spans with class 'search-match'
    playbackSpeed,         \* this.playbackSpeed, in hundredths
    autoScroll,            \* this.autoScroll
    fontSize,              \* this.fontSize
    theme,                 \* document.body.dataset.theme, "dark" when the attribute is absent
    pageZoom,              \* this.pageZoom, in hundredths
    settings,              \* localStorage item 'readalong-settings': None or <<text>>
    outsideBand,           \* ids of the sentences whose span lies outside the safe band
    textReader,            \* the TextReader of a text-only page open beside the reader
    selectedSentenceId,    \* this.selectedSentenceId
    touchStartX,           \* this.touchStartX
    touchStartY,           \* this.touchStartY
    currentChapter,        \* this.currentChapter
    currentSentenceIndex,  \* this.currentSentenceIndex
    isPlaying,             \* this.isPlaying
    sleepTimerMode,        \* this.sleepTimerMode: Null, "minutes", "chapter"
    sleepTimerEnd,         \* this.sleepTimerEnd: Null or a deadline
    audio,                 \* this.audio, the HTMLAudioElement
    sentenceClass,         \* classes 'active'/'played' of the rendered .sentence spans
    timers,                \* pending setTimeout callbacks
    now,                   \* Date.now()
    event,                 \* history: the handler that ran last
    calls,                 \* history: outward calls made by that handler
    input,                 \* history: the argument the last handler was given
    timerPauses            \* history: pauses fired by the sleep timer since it was last set

vars == <<bookData, timingData, audioBasePath, audioFiles, textData, notes,
          bookmarks, highlights, storage, progress, storageFull, download,
          searchPanel, searchMatch, playbackSpeed, autoScroll, fontSize, theme,
          pageZoom, settings, outsideBand, textReader, selectedSentenceId, touchStartX, touchStartY,
          currentChapter, currentSentenceIndex, isPlaying, sleepTimerMode,
          sleepTimerEnd, audio, sentenceClass, timers, now, event, calls, input,
          timerPauses>>

Null == "null"
None == <<>>
Some(x) == <<x>>
\* this.selectedSentenceId = null: no sentence is selected
NoSentence == -1
\* the bookIds of the manifests in the library
BookIds == {"book", "other"}

(***************************************************************************)
(* Bounds of the model.                                                    *)
(***************************************************************************)
MaxTime == 3         \* audio duration of a chapter, and largest entry time
MaxEntries == 2      \* longest timing-entry list drawn for the lookup
MaxNow == 2          \* the clock stops here in the navigation specification
MaxSetNow == 1       \* latest clock reading at which a sleep timer is set
MaxMinutes == 1      \* longest countdown offered
MaxEvents == 2       \* queued media events (play / pause / ended)
MaxListeners == 2    \* pending once-listeners for 'loadedmetadata'
MaxDays == 31         \* days the clock can be moved ahead
MaxAnnotations == 2  \* bookmarks, notes and highlights held together
MaxQuery == 2        \* longest text typed into the search input
MaxTextChapters == 3 \* chapters the text-only reader finds in a book's HTML
MaxPage == 2         \* pages of a book's PDF

(***************************************************************************)
(* Program constants.                                                      *)
(***************************************************************************)
SecondsPerMinute == 60
SkipBack == 10          \* the skip-back button
SkipForward == 30       \* the skip-forward button
ArrowSkip == 5          \* the keys ArrowLeft and ArrowRight
SwipeMin == 100         \* shortest horizontal travel of a chapter swipe
EdgeWidth == 50         \* width of the screen edge a chapter swipe starts in

(***************************************************************************)
(* Timing data.  An entry is [id, start, end] with start < end; a chapter  *)
(* is a sequence of entries ordered by start (gaps and overlaps allowed).  *)
(***************************************************************************)
Windows == {w \in (0..MaxTime) \X (0..MaxTime) : w[1] < w[2]}

SortedByStart(ws) == \A k \in 1..(Len(ws) - 1) : ws[k][1] <= ws[k + 1][1]

WindowLists ==
    UNION {{ws \in [1..n -> Windows] : SortedByStart(ws)} : n \in 0..MaxEntries}

\* ids are unique within a chapter: entry k of a drawn list gets id k
MakeEntries(ws) == [k \in 1..Len(ws) |-> [id |-> k, start |-> ws[k][1], end |-> ws[k][2]]]

\* every book with one chapter and any sorted entry list
LocateBooks == {<<MakeEntries(ws)>> : ws \in WindowLists}

\* a two-chapter book with contiguous entries
MainBook ==
    << <<[id |-> 1, start |-> 0, end |-> 1], [id |-> 2, start |-> 1, end |-> 2]>>,
       <<[id |-> 3, start |-> 0, end |-> 2]>> >>

Books == {MainBook}

\* a text map for the timing map book: every chapter is one paragraph, and
\* the text of a sentence is its id in decimal
TextOf(book) ==
    [c \in 1..Len(book) |->
        << [k \in 1..Len(book[c]) |->
               [id |-> book[c][k].id, text |-> <<ToString(book[c][k].id)>>]] >>]

ChapterCount == Len(timingData)
Chapters == 0..(ChapterCount - 1)
Entries(c) == timingData[c + 1]
SentenceIds(c) == {Entries(c)[k].id : k \in 1..Len(Entries(c))}

\* audio.duration of a chapter's audio, known once its metadata is loaded:
\* the narration runs to the latest end of the chapter's entries
MaxEnd(entries) ==
    IF entries = <<>> THEN 1
    ELSE LET ends == {entries[k].end : k \in 1..Len(entries)}
         IN  CHOOSE m \in ends : \A e \in ends : e <= m

DurationOf(src) == MaxEnd(Entries(src.chapter))

(***************************************************************************)
(* highlightCurrentSentence: the lookup of the current sentence.           *)
(***************************************************************************)
\* Scan with the window closed at its end (currentTime <= end)
RECURSIVE ScanInclusiveEnd(_, _, _)
ScanInclusiveEnd(entries, currentTime, i) ==
    IF i >= Len(entries) THEN -1
    ELSE IF currentTime >= entries[i + 1].start /\ currentTime <= entries[i + 1].end
         THEN i
    ELSE IF currentTime < entries[i + 1].start
         THEN (IF i > 0 THEN i - 1 ELSE -1)
    ELSE ScanInclusiveEnd(entries, currentTime, i + 1)

\* Scan taking the upcoming entry in a gap, as the comment of line 911 says
RECURSIVE ScanUpcoming(_, _, _)
ScanUpcoming(entries, currentTime, i) ==
    IF i >= Len(entries) THEN -1
    ELSE IF currentTime >= entries[i + 1].start /\ currentTime < entries[i + 1].end
         THEN i
    ELSE IF currentTime < entries[i + 1].start
         THEN i
    ELSE ScanUpcoming(entries, currentTime, i + 1)

\* the for-loop of lines 906-916, from loop index i on (0-based)
RECURSIVE Scan(_, _, _)
Scan(entries, currentTime, i) ==
    IF i >= Len(entries) THEN -1
    ELSE IF currentTime >= entries[i + 1].start /\ currentTime < entries[i + 1].end
         THEN i
    ELSE IF currentTime < entries[i + 1].start
         THEN (IF i > 0 THEN i - 1 ELSE -1)
    ELSE Scan(entries, currentTime, i + 1)

\* FindCurrentIndex without the end-of-chapter rule
FindCurrentIndexNoTail(entries, currentTime) == Scan(entries, currentTime, 0)

\* the loop followed by the end-of-chapter rule of lines 918-921
FindCurrentIndex(entries, currentTime) ==
    LET currentIndex == Scan(entries, currentTime, 0)
    IN  IF currentIndex = -1 /\ Len(entries) > 0
           /\ currentTime >= entries[Len(entries)].start
        THEN Len(entries) - 1
        ELSE currentIndex

(***************************************************************************)
(* The rendered text: one span per sentence of the rendered chapter, each  *)
(* with the classes 'active' and 'played' set or not.                      *)
(***************************************************************************)
NoClass == [active |-> FALSE, played |-> FALSE]

\* renderText: fresh spans, none active or played
RenderText(ids) == [s \in ids |-> NoClass]

\* updateHighlighting: clear both classes everywhere, then walk the entries
UpdateHighlighting(entries, index, cls) ==
    [s \in DOMAIN cls |->
        [active |-> \E k \in 1..Len(entries) :
                        entries[k].id = s /\ k - 1 = index,
         played |-> \E k \in 1..Len(entries) :
                        entries[k].id = s /\ k - 1 # index /\ k - 1 < index]]

(***************************************************************************)
(* The audio element.  src is NoSrc or [chapter, ext]; readyState is 0     *)
(* (HAVE_NOTHING) or 1 (HAVE_METADATA or more); events is the queue of     *)
(* media events the browser has yet to dispatch; onceLoadedmetadata and    *)
(* onceError are the pending { once: true } listeners; defaultStart is the *)
(* element's default playback start position.                              *)
(***************************************************************************)
NoSrc == [chapter |-> -1, ext |-> "none"]

\* no text-only page is open
NoTextReader == [bookId |-> Null, currentChapter |-> 0, highlights |-> <<>>, notes |-> <<>>]

\* audio.defaultPlaybackRate, in hundredths
DefaultPlaybackRate == 100

\* the constructor's settings: speed in hundredths, zoom in tenths
DefaultSpeed == 100
DefaultFontSize == 18
DefaultPageZoom == 10

\* the limits of setFontSize() and zoomPage() and the steps of their buttons
MinFontSize == 12
MaxFontSize == 32
FontStep == 2
MinPageZoom == 5
MaxPageZoom == 30
ZoomStep == 1

\* how many steps from the default the font size and the zoom are taken
MaxSteps == 1

NewAudio ==
    [src |-> NoSrc, readyState |-> 0, currentTime |-> 0, paused |-> TRUE,
     error |-> FALSE, events |-> <<>>,
     onceLoadedmetadata |-> <<>>, onceError |-> None, defaultStart |-> 0,
     playbackRate |-> DefaultPlaybackRate]

\* audio.src = s: the media element load algorithm resets the element, its
\* playbackRate to the defaultPlaybackRate; a playing element is paused
\* without a 'pause' event
SetSrc(a, s) ==
    [a EXCEPT !.src = s, !.readyState = 0, !.currentTime = 0, !.error = FALSE,
              !.paused = IF a.src = NoSrc THEN a.paused ELSE TRUE,
              !.playbackRate = DefaultPlaybackRate]

\* audio.play(): on a source that failed to load the promise is rejected
\* and nothing changes; playback that has ended restarts from 0; 'play' is
\* queued only when the element was paused
AudioPlay(a) ==
    LET t == IF a.readyState = 1 /\ a.currentTime >= DurationOf(a.src) THEN 0
             ELSE a.currentTime
    IN  IF a.error THEN a
        ELSE IF a.paused
        THEN [a EXCEPT !.paused = FALSE, !.currentTime = t,
                       !.events = Append(@, "play")]
        ELSE a

\* audio.pause(): 'pause' is queued only when the element was playing
AudioPause(a) ==
    IF a.paused THEN a
    ELSE [a EXCEPT !.paused = TRUE, !.events = Append(@, "pause")]

\* the seek of the element: a position outside the media is moved to its
\* nearest end
SeekPosition(a, t) ==
    IF t < 0 THEN 0 ELSE IF t > DurationOf(a.src) THEN DurationOf(a.src) ELSE t

\* audio.currentTime = t: without metadata the element only notes t as its
\* default playback start position, otherwise it seeks
SetCurrentTime(a, t) ==
    IF a.readyState = 0 THEN [a EXCEPT !.defaultStart = t]
    ELSE [a EXCEPT !.currentTime = SeekPosition(a, t)]

\* the element has read the metadata: it seeks to a default playback start
\* position above 0 and forgets it
HaveMetadata(a) ==
    LET a1 == [a EXCEPT !.readyState = 1]
    IN  [a1 EXCEPT !.currentTime = IF a.defaultStart > 0
                                   THEN SeekPosition(a1, a.defaultStart) ELSE @,
                   !.defaultStart = 0]

\* audio.load(): the load algorithm again, on the same source
AudioLoad(a) == SetSrc(a, a.src)

\* the once-listeners for 'loadedmetadata', run in registration order: each
\* is [time, play]: it sets currentTime and, if play, calls audio.play()
RECURSIVE RunLoadedmetadata(_, _)
RunLoadedmetadata(a, listeners) ==
    IF listeners = <<>> THEN a
    ELSE LET l == Head(listeners)
             a1 == SetCurrentTime(a, l.time)
             a2 == IF l.play THEN AudioPlay(a1) ELSE a1
         IN  RunLoadedmetadata(a2, Tail(listeners))

(***************************************************************************)
(* The reader object.  Handlers are functions from the reader's fields     *)
(* (the record This) to its fields after the handler; Commit writes the    *)
(* result back.  calls collects, in order, the calls the handler makes:     *)
(* [op, chapter, pos, id, msg] with -1 and "" for what a call does not     *)
(* take.                                                                   *)
(***************************************************************************)
This ==
    [currentChapter |-> currentChapter,
     currentSentenceIndex |-> currentSentenceIndex,
     isPlaying |-> isPlaying,
     sleepTimerMode |-> sleepTimerMode,
     sleepTimerEnd |-> sleepTimerEnd,
     audio |-> audio,
     sentenceClass |-> sentenceClass,
     searchMatch |-> searchMatch,
     progress |-> progress,
     timers |-> timers,
     timerPauses |-> timerPauses,
     calls |-> <<>>]

Commit(r, ev) ==
    /\ Len(r.audio.events) <= MaxEvents
    /\ Len(r.audio.onceLoadedmetadata) <= MaxListeners
    /\ currentChapter' = r.currentChapter
    /\ currentSentenceIndex' = r.currentSentenceIndex
    /\ isPlaying' = r.isPlaying
    /\ sleepTimerMode' = r.sleepTimerMode
    /\ sleepTimerEnd' = r.sleepTimerEnd
    /\ audio' = r.audio
    /\ sentenceClass' = r.sentenceClass
    /\ searchMatch' = r.searchMatch
    /\ progress' = r.progress
    /\ timers' = r.timers
    /\ timerPauses' = r.timerPauses
    /\ calls' = r.calls
    /\ event' = ev

\* the state of the storage quota and of the page outside the text
settingVars == <<playbackSpeed, autoScroll, fontSize, theme, pageZoom, settings>>
pageVars == <<storageFull, download, searchPanel, settingVars, outsideBand, textReader>>

\* the fields and history that the handlers of playback leave alone
bookVars == <<bookData, timingData, audioBasePath, audioFiles, textData, notes,
              bookmarks, highlights, storage, storageFull, download, searchPanel,
              settingVars, outsideBand, textReader,
              selectedSentenceId, touchStartX, touchStartY, input>>

Called(r, op, chapter, pos, id, msg) ==
    [r EXCEPT !.calls = Append(@, [op |-> op, chapter |-> chapter, pos |-> pos,
                                   id |-> id, msg |-> msg])]

\* showToast(message)
ShowToast(r, msg) == Called(r, "showToast", -1, -1, -1, msg)

\* the handler ends with an exception that nothing catches
Throw(r, name) == Called(r, "throw", -1, -1, -1, name)

\* this.audio.play()
Play(r) == Called([r EXCEPT !.audio = AudioPlay(@)], "play", -1, -1, -1, "")

\* this.audio.pause()
Pause(r) == Called([r EXCEPT !.audio = AudioPause(@)], "pause", -1, -1, -1, "")

Abs(x) == IF x < 0 THEN -x ELSE x
Max(x, y) == IF x > y THEN x ELSE y
Min(x, y) == IF x < y THEN x ELSE y

\* this.audio.currentTime = t in a handler; the call is logged with the time
\* the handler asks for
Seek(r, t) ==
    Called([r EXCEPT !.audio = SetCurrentTime(@, t)], "setCurrentTime", -1, t, -1, "")

\* this.audio.currentTime = Math.min(this.audio.duration, t): without
\* metadata the duration is NaN, so is the minimum, and the assignment throws
SeekBelowDuration(r, t) ==
    IF r.audio.readyState = 0 THEN r
    ELSE Seek(r, Min(DurationOf(r.audio.src), t))

\* seekTo(event) with the pointer at the place of time t on the axis of the
\* progress bar: percent * duration is t; without metadata it is NaN and the
\* assignment throws
SeekTo(r, t) == IF r.audio.readyState = 0 THEN r ELSE Seek(r, t)

\* loadChapter(chapterIndex, startPosition), for a chapter of the timing map
\* chapters, read with audioBasePath = base and audioFiles = files
LoadChapterOf(chapters, base, files, r, chapterIndex, startPosition) ==
    LET \* the listener of lines 793-797 / 804-808; with startPosition = 0 it
        \* does nothing when it fires and is left out
        seek == IF startPosition > 0
                THEN <<[time |-> startPosition, play |-> FALSE]>>
                ELSE <<>>
        a == r.audio
        loaded ==
            IF base # Null
            THEN [SetSrc(a, [chapter |-> chapterIndex, ext |-> "mp3"]) EXCEPT
                     \* once-listeners for 'error' all run on the same event and
                     \* only the first can still see an .mp3 source: the oldest
                     \* pending one is kept
                     !.onceError = IF a.onceError = None THEN Some(chapterIndex) ELSE @,
                     !.onceLoadedmetadata = @ \o seek]
            ELSE IF chapterIndex \in files
            THEN [SetSrc(a, [chapter |-> chapterIndex, ext |-> "blob"]) EXCEPT
                     !.onceLoadedmetadata = @ \o seek]
            ELSE a
        r1 == [r EXCEPT !.currentChapter = chapterIndex,
                        !.currentSentenceIndex = -1,
                        \* renderText replaces the spans; a pending removal of
                        \* 'active' holds a span that is no longer in the document
                        !.sentenceClass = RenderText(
                            {chapters[chapterIndex + 1][k].id :
                                k \in 1..Len(chapters[chapterIndex + 1])}),
                        !.searchMatch = {},
                        !.timers = {t \in @ : t.kind # "flashOff"},
                        !.audio = loaded]
    IN  IF chapterIndex + 1 \in DOMAIN chapters
        THEN Called(r1, "loadChapter", chapterIndex, startPosition, -1, "")
        ELSE \* no such chapter: renderText(undefined) throws, after the two
             \* assignments of lines 758-759
             Throw(Called([r EXCEPT !.currentChapter = chapterIndex,
                                    !.currentSentenceIndex = -1],
                          "loadChapter", chapterIndex, startPosition, -1, ""),
                   "TypeError")

LoadChapter(r, chapterIndex, startPosition) ==
    LoadChapterOf(timingData, audioBasePath, audioFiles, r, chapterIndex, startPosition)

\* highlightCurrentSentence(currentTime)
\* scrollToElement(el) for the span of the sentence id: a scroll is
\* requested when the span lies outside the safe band
ScrollToElement(r, id) ==
    IF id \in outsideBand THEN Called(r, "scrollTo", -1, -1, id, "") ELSE r

\* the auto-scroll of updateHighlighting(): the span of the current entry,
\* when there is one
AutoScroll(r, entries, index) ==
    IF index >= 0 /\ index < Len(entries) /\ entries[index + 1].id \in DOMAIN r.sentenceClass
       /\ autoScroll /\ r.isPlaying
    THEN ScrollToElement(r, entries[index + 1].id)
    ELSE r

\* AutoScroll that does not look at isPlaying
AutoScrollWhilePaused(r, entries, index) ==
    IF index >= 0 /\ index < Len(entries) /\ entries[index + 1].id \in DOMAIN r.sentenceClass
       /\ autoScroll
    THEN ScrollToElement(r, entries[index + 1].id)
    ELSE r

\* HighlightCurrentSentence scrolling also while not playing
HighlightCurrentSentenceScrolling(r, currentTime) ==
    LET entries == Entries(r.currentChapter)
        currentIndex == FindCurrentIndex(entries, currentTime)
    IN  IF currentIndex # r.currentSentenceIndex
        THEN AutoScrollWhilePaused(
                 [r EXCEPT !.currentSentenceIndex = currentIndex,
                           !.sentenceClass = UpdateHighlighting(entries, currentIndex, @)],
                 entries, currentIndex)
        ELSE r

HighlightCurrentSentence(r, currentTime) ==
    LET entries == Entries(r.currentChapter)
        currentIndex == FindCurrentIndex(entries, currentTime)
    IN  IF currentIndex # r.currentSentenceIndex
        THEN AutoScroll(
                 [r EXCEPT !.currentSentenceIndex = currentIndex,
                           !.sentenceClass = UpdateHighlighting(entries, currentIndex, @)],
                 entries, currentIndex)
        ELSE r

\* cancelSleepTimer(); the call is logged with the mode it cancels
CancelSleepTimer(r) ==
    Called([r EXCEPT !.sleepTimerEnd = None, !.sleepTimerMode = Null],
           "cancelSleepTimer", -1, -1, -1, r.sleepTimerMode)

\* parseInt of a decimal string
ParseInt(value) == CHOOSE n \in 0..(MaxMinutes + 1) : ToString(n) = value

\* SetSleepTimer without the cancelSleepTimer() of its first line
SetSleepTimerNoCancel(r, value) ==
    LET r1 == [r EXCEPT !.timerPauses = 0]
    IN  IF value = "0" THEN ShowToast(r1, "Sleep timer cancelled")
        ELSE IF value = "chapter"
        THEN ShowToast([r1 EXCEPT !.sleepTimerMode = "chapter"],
                       "Will stop at end of chapter")
        ELSE LET minutes == ParseInt(value)
             IN  Called([r1 EXCEPT !.sleepTimerMode = "minutes",
                                   !.sleepTimerEnd = Some(now + minutes * SecondsPerMinute)],
                        "showToast", -1, -1, minutes, "Sleep timer set for minutes")

\* setSleepTimer(value): value is the button's data-minutes string
SetSleepTimer(r, value) ==
    LET r1 == [CancelSleepTimer(r) EXCEPT !.timerPauses = 0]
    IN  IF value = "0" THEN ShowToast(r1, "Sleep timer cancelled")
        ELSE IF value = "chapter"
        THEN ShowToast([r1 EXCEPT !.sleepTimerMode = "chapter"],
                       "Will stop at end of chapter")
        ELSE LET minutes == ParseInt(value)
             IN  Called([r1 EXCEPT !.sleepTimerMode = "minutes",
                                   !.sleepTimerEnd = Some(now + minutes * SecondsPerMinute)],
                        "showToast", -1, -1, minutes, "Sleep timer set for minutes")

\* CheckSleepTimer ending the end-of-chapter mode at a tick
CheckSleepTimerUnlatching(r) ==
    IF r.sleepTimerEnd = None /\ r.sleepTimerMode # "chapter" THEN r
    ELSE IF r.sleepTimerMode = "minutes"
    THEN LET d == r.sleepTimerEnd[1] - now
             remaining == IF d > 0 THEN d ELSE 0
         IN  IF remaining <= 0
             THEN ShowToast(CancelSleepTimer(
                      [Pause(r) EXCEPT !.timerPauses = @ + 1]), "Sleep timer ended")
             ELSE r
    ELSE CancelSleepTimer(r)

\* CheckSleepTimer pausing at the deadline without cancelling the timer
CheckSleepTimerNoCancel(r) ==
    IF r.sleepTimerEnd = None /\ r.sleepTimerMode # "chapter" THEN r
    ELSE IF r.sleepTimerMode = "minutes"
    THEN LET d == r.sleepTimerEnd[1] - now
             remaining == IF d > 0 THEN d ELSE 0
         IN  IF remaining <= 0
             THEN ShowToast([Pause(r) EXCEPT !.timerPauses = @ + 1], "Sleep timer ended")
             ELSE r
    ELSE r

\* checkSleepTimer()
CheckSleepTimer(r) ==
    IF r.sleepTimerEnd = None /\ r.sleepTimerMode # "chapter" THEN r
    ELSE IF r.sleepTimerMode = "minutes"
    THEN LET d == r.sleepTimerEnd[1] - now
             remaining == IF d > 0 THEN d ELSE 0
         IN  IF remaining <= 0
             THEN ShowToast(CancelSleepTimer(
                      [Pause(r) EXCEPT !.timerPauses = @ + 1]), "Sleep timer ended")
             ELSE r
    ELSE r

\* SeekToSentence seeking to the end of the entry instead of its start
SeekToSentenceEnd(r0, sentenceId) ==
    LET r == Called(r0, "seekToSentence", -1, -1, sentenceId, "")
        entries == Entries(r.currentChapter)
        found == {k \in 1..Len(entries) : entries[k].id = sentenceId}
    IN  IF found = {} THEN r
        ELSE LET entry == entries[CHOOSE k \in found : \A j \in found : k <= j]
             IN  IF r.audio.readyState >= 1
                 THEN LET r1 == [r EXCEPT !.audio = SetCurrentTime(@, entry.end)]
                      IN  IF ~r.isPlaying THEN Play(r1) ELSE r1
                 ELSE [r EXCEPT !.audio =
                          AudioLoad([@ EXCEPT !.onceLoadedmetadata =
                              Append(@, [time |-> entry.end, play |-> TRUE])])]

\* seekToSentence(sentenceId); the call is logged with the sentence id
SeekToSentence(r0, sentenceId) ==
    LET r == Called(r0, "seekToSentence", -1, -1, sentenceId, "")
        entries == Entries(r.currentChapter)
        found == {k \in 1..Len(entries) : entries[k].id = sentenceId}
    IN  IF found = {} THEN r
        ELSE LET entry == entries[CHOOSE k \in found : \A j \in found : k <= j]
             IN  IF r.audio.readyState >= 1
                 THEN LET r1 == [r EXCEPT !.audio = SetCurrentTime(@, entry.start)]
                      IN  IF ~r.isPlaying THEN Play(r1) ELSE r1
                 ELSE [r EXCEPT !.audio =
                          AudioLoad([@ EXCEPT !.onceLoadedmetadata =
                              Append(@, [time |-> entry.start, play |-> TRUE])])]

\* togglePlay()
TogglePlay(r) == IF r.audio.paused THEN Play(r) ELSE Pause(r)

\* updatePlayState(playing)
UpdatePlayState(r, playing) == [r EXCEPT !.isPlaying = playing]

\* OnChapterEnd without the return of the end-of-chapter branch: the timer
\* is cancelled and the handler goes on to auto-advance
OnChapterEndNoReturn(r) ==
    LET r1 == IF r.sleepTimerMode = "chapter"
              THEN ShowToast(CancelSleepTimer(r), "Sleep timer ended")
              ELSE r
    IN  IF r1.currentChapter < ChapterCount - 1
        THEN Play(LoadChapter(r1, r1.currentChapter + 1, 0))
        ELSE r1

\* OnChapterEnd loading the next chapter without calling audio.play()
OnChapterEndNoPlay(r) ==
    IF r.sleepTimerMode = "chapter"
    THEN ShowToast(CancelSleepTimer(r), "Sleep timer ended")
    ELSE IF r.currentChapter < ChapterCount - 1
    THEN LoadChapter(r, r.currentChapter + 1, 0)
    ELSE r

\* onChapterEnd()
OnChapterEnd(r) ==
    IF r.sleepTimerMode = "chapter"
    THEN ShowToast(CancelSleepTimer(r), "Sleep timer ended")
    ELSE IF r.currentChapter < ChapterCount - 1
    THEN Play(LoadChapter(r, r.currentChapter + 1, 0))
    ELSE r

(***************************************************************************)
(* Annotations and their persisted document.  A record holds strings and   *)
(* numbers; the text of sentence n and the title of chapter c are written  *)
(* as the decimal strings of n and c, Date.now().toString() and the ISO    *)
(* timestamp of the clock reading t as the decimal string of t.            *)
(***************************************************************************)
\* the fields that hold a number
NumberFields == {"chapter", "time", "sentenceId", "position", "updatedAt", "page"}

\* 24 * 60 * 60 * 1000 ms
SecondsPerDay == 24 * 60 * SecondsPerMinute

\* the readings of Date.now(): whole days and the seconds after them
ClockReadings == {d * SecondsPerDay + t : d \in 0..MaxDays, t \in 0..MaxNow}

\* the clock readings around the deadlines a timer can have: from a second
\* before a whole number of minutes to a second after the latest deadline
SleepReadings ==
    {m * SecondsPerMinute + t : m \in 0..MaxMinutes, t \in -1..(MaxSetNow + 1)}
        \cap Nat

\* a stored text that JSON.parse throws on
Corrupt == [corrupt |-> <<"string", "{">>]

\* the numbers a document can hold: times and ids, and clock readings
Numbers == (-1..MaxTime) \cup ClockReadings \cup SleepReadings

\* JSON.stringify of a record: a number becomes its decimal text
Stringify(rec) ==
    [k \in DOMAIN rec |->
        IF k \in NumberFields THEN <<"number", ToString(rec[k])>>
        ELSE <<"string", rec[k]>>]

\* JSON.parse of such a text
Parse(text) ==
    [k \in DOMAIN text |->
        IF text[k][1] = "number"
        THEN CHOOSE n \in Numbers : ToString(n) = text[k][2]
        ELSE text[k][2]]

StringifyAll(list) == [k \in 1..Len(list) |-> Stringify(list[k])]
ParseAll(texts) == [k \in 1..Len(texts) |-> Parse(texts[k])]

\* SaveBookData leaving the highlights out of the document
SaveBookDataNoHighlights(bm, nt, hl) ==
    Some([bookmarks |-> StringifyAll(bm), notes |-> StringifyAll(nt),
          highlights |-> <<>>])

\* localStorage.setItem(key, new) on an item that holds old: when the quota
\* is exceeded it throws and the item stays
SetItem(old, new) == IF storageFull THEN old ELSE new

\* what follows a call of saveBookData() in a handler, here the toast msg,
\* is not reached when setItem throws
AfterSave(r, msg) ==
    IF storageFull THEN Throw(r, "QuotaExceededError") ELSE ShowToast(r, msg)

\* the text saveBookData() writes
SaveBookData(bm, nt, hl) ==
    Some([bookmarks |-> StringifyAll(bm), notes |-> StringifyAll(nt),
          highlights |-> StringifyAll(hl)])

\* loadBookData() on a reader whose lists are bm, nt, hl: the three lists
\* afterwards; JSON.parse throws on a corrupt text, and the catch leaves the
\* lists as they are
LoadBookData(saved, bm, nt, hl) ==
    IF saved = None \/ saved = Some(Corrupt)
    THEN [bookmarks |-> bm, notes |-> nt, highlights |-> hl]
    ELSE [bookmarks |-> ParseAll(saved[1].bookmarks),
          notes |-> ParseAll(saved[1].notes),
          highlights |-> ParseAll(saved[1].highlights)]

\* WithoutId dropping the record with the id and every record after it
RECURSIVE WithoutIdOrLater(_, _)
WithoutIdOrLater(list, id) ==
    IF list = <<>> THEN <<>>
    ELSE IF Head(list).id = id THEN <<>>
    ELSE <<Head(list)>> \o WithoutIdOrLater(Tail(list), id)

\* 30 * 24 * 60 * 60 * 1000 ms
ProgressTtl == 30 * SecondsPerDay

\* the text saveProgress() writes for the reader r
ProgressOf(r) ==
    Some(Stringify([bookId |-> bookData, chapter |-> r.currentChapter,
                    position |-> r.audio.currentTime, updatedAt |-> now]))

\* saveProgress()
\* saveProgress() writing the record under the key of every book
SaveProgressShared(r) ==
    IF bookData = Null THEN r
    ELSE [r EXCEPT !.progress = [b \in BookIds |-> ProgressOf(r)]]

SaveProgress(r) ==
    IF bookData = Null THEN r ELSE [r EXCEPT !.progress[bookData] = ProgressOf(r)]

\* getSavedProgress() of the book bookId at the clock reading t, given the
\* stored item: None for null, or <<progress>>
\* getSavedProgress() that also accepts a record of exactly the limit's age
GetSavedProgressInclusive(saved, t) ==
    IF saved = None \/ saved = Some(Corrupt) THEN None
    ELSE LET savedProgress == Parse(saved[1])
         IN  IF t - savedProgress.updatedAt <= ProgressTtl THEN Some(savedProgress) ELSE None

GetSavedProgress(saved, t) ==
    IF saved = None \/ saved = Some(Corrupt) THEN None
    ELSE LET savedProgress == Parse(saved[1])
         IN  IF t - savedProgress.updatedAt < ProgressTtl
             THEN Some(savedProgress) ELSE None

\* onTimeUpdate(): when setItem throws in saveProgress(), checkSleepTimer()
\* is not reached
OnTimeUpdate(r) ==
    LET r1 == HighlightCurrentSentence(r, r.audio.currentTime)
    IN  IF bookData # Null /\ storageFull THEN Throw(r1, "QuotaExceededError")
        ELSE CheckSleepTimer(SaveProgress(r1))

\* array.filter(x => x.id !== id)
RECURSIVE WithoutId(_, _)
WithoutId(list, id) ==
    IF list = <<>> THEN <<>>
    ELSE IF Head(list).id = id THEN WithoutId(Tail(list), id)
    ELSE <<Head(list)>> \o WithoutId(Tail(list), id)

\* array.filter(x => x.bookId === this.bookData?.bookId): the records a list
\* panel shows, in the order it shows them
RECURSIVE ForBook(_, _)
ForBook(list, bookId) ==
    IF list = <<>> THEN <<>>
    ELSE IF Head(list).bookId = bookId THEN <<Head(list)>> \o ForBook(Tail(list), bookId)
    ELSE ForBook(Tail(list), bookId)

\* renderBookmarks(), renderNotes(), renderHighlights(): the three lists shown
RenderBookmarks(bm) == ForBook(bm, bookData)
RenderNotes(nt) == ForBook(nt, bookData)
RenderHighlights(hl) == ForBook(hl, bookData)

(***************************************************************************)
(* Initial state: the reader as the constructor leaves it, no book loaded. *)
(***************************************************************************)
Init ==
    /\ bookData = Null
    /\ timingData = <<>>
    /\ audioBasePath = Null
    /\ audioFiles = {}
    /\ textData = <<>>
    /\ notes = <<>>
    /\ bookmarks = <<>>
    /\ highlights = <<>>
    /\ storage = None
    /\ progress = [b \in BookIds |-> None]
    /\ storageFull = FALSE
    /\ playbackSpeed = DefaultSpeed
    /\ autoScroll = TRUE
    /\ fontSize = DefaultFontSize
    /\ theme = "dark"
    /\ pageZoom = DefaultPageZoom
    /\ settings = None
    /\ outsideBand = {}
    /\ textReader = NoTextReader
    /\ download = None
    /\ searchPanel = None
    /\ searchMatch = {}
    /\ selectedSentenceId = NoSentence
    /\ touchStartX = 0
    /\ touchStartY = 0
    /\ input = <<>>
    /\ currentChapter = 0
    /\ currentSentenceIndex = -1
    /\ isPlaying = FALSE
    /\ sleepTimerMode = Null
    /\ sleepTimerEnd = None
    /\ audio = NewAudio
    /\ sentenceClass = RenderText({})
    /\ timers = {}
    /\ now = 0
    /\ event = "constructor"
    /\ calls = <<>>
    /\ timerPauses = 0

(***************************************************************************)
(* Actions: one per event handler.                                         *)
(***************************************************************************)
\* loadBookFromPath (base = "base") / handleFolderSelect (base = Null, files
\* the chapters whose audio is in the folder) of the book bookId with the
\* timing map book and the text map text, all three read without failure;
\* then loadBookData and initializeReader
LoadBookText(bookId, book, text, base, files) ==
    /\ bookData = Null
    /\ bookData' = bookId
    /\ timingData' = book
    /\ textData' = text
    /\ audioBasePath' = base
    /\ audioFiles' = files
    /\ LET data == LoadBookData(storage, bookmarks, notes, highlights)
       IN  /\ bookmarks' = data.bookmarks
           /\ notes' = data.notes
           /\ highlights' = data.highlights
    /\ LET savedProgress == GetSavedProgress(progress[bookId], now)
       IN  Commit(IF savedProgress # None
                  THEN ShowToast(LoadChapterOf(book, base, files, This,
                                               savedProgress[1].chapter,
                                               savedProgress[1].position),
                                 "Resumed from where you left off")
                  ELSE LoadChapterOf(book, base, files, This, 0, 0),
                  "initializeReader")
    /\ UNCHANGED <<storage, pageVars, selectedSentenceId, touchStartX, touchStartY,
                   input, now>>

\* what the fetch of manifest.json, of the timing map or of the text map
\* yields: the document, a response that is not ok, or a text that is not JSON
PartStates == {"ok", "missing", "malformed"}

\* loadBookFromPath(basePath) on a new reader when a part of the book is
\* missing or malformed. The manifest is assigned before the maps are
\* fetched, a map that is missing is skipped, and a malformed one throws
\* into the catch of line 428; with the maps skipped initializeReader is
\* still called: without a timing map it throws into the same catch, without
\* a text map loadChapter throws after lines 758-759, in a promise that
\* nothing awaits
LoadBookParts(bookId, book, manifest, timing, text) ==
    /\ bookData = Null
    /\ <<manifest, timing, text>> # <<"ok", "ok", "ok">>
    /\ LET gotManifest == manifest = "ok"
           gotTiming == gotManifest /\ timing = "ok"
           gotText == gotManifest /\ timing # "malformed" /\ text = "ok"
           initialized == gotManifest /\ timing # "malformed" /\ text # "malformed"
           data == LoadBookData(storage, bookmarks, notes, highlights)
           savedProgress == GetSavedProgress(progress[bookId], now)
           chapterIndex == IF savedProgress # None THEN savedProgress[1].chapter ELSE 0
           startPosition == IF savedProgress # None THEN savedProgress[1].position ELSE 0
           loading == Throw(Called([This EXCEPT !.currentChapter = chapterIndex,
                                                !.currentSentenceIndex = -1],
                                   "loadChapter", chapterIndex, startPosition, -1, ""),
                            "TypeError")
       IN  /\ bookData' = IF gotManifest THEN bookId ELSE bookData
           /\ timingData' = IF gotTiming THEN book ELSE timingData
           /\ textData' = IF gotText THEN TextOf(book) ELSE textData
           /\ audioBasePath' = IF initialized THEN "base" ELSE audioBasePath
           /\ bookmarks' = IF initialized THEN data.bookmarks ELSE bookmarks
           /\ notes' = IF initialized THEN data.notes ELSE notes
           /\ highlights' = IF initialized THEN data.highlights ELSE highlights
           /\ Commit(IF ~initialized \/ ~gotTiming
                     THEN ShowToast(This, "Error loading book")
                     ELSE IF savedProgress # None
                     THEN ShowToast(loading, "Resumed from where you left off")
                     ELSE loading,
                     "loadBookFromPath")
    /\ UNCHANGED <<audioFiles, storage, pageVars, selectedSentenceId, touchStartX,
                   touchStartY, input, now>>

LoadBookAs(bookId, book, base, files) ==
    LoadBookText(bookId, book, TextOf(book), base, files)

LoadBook(book, base, files) == LoadBookAs("book", book, base, files)

\* 'timeupdate' of the audio element
TimeUpdate ==
    /\ bookData # Null
    /\ audio.src # NoSrc
    /\ Commit(OnTimeUpdate(This), "timeupdate")
    /\ UNCHANGED <<bookVars, now>>

\* click on a sentence span (lines 858-863)
SentenceClick(sentenceId) ==
    /\ bookData # Null
    /\ sentenceId \in DOMAIN sentenceClass
    /\ Commit(SeekToSentence(This, sentenceId), "seekToSentence")
    /\ UNCHANGED <<bookVars, now>>

\* click on the progress bar at the position of time t: seekTo(event)
ProgressBarClick(t) ==
    /\ bookData # Null
    /\ audio.readyState >= 1
    /\ t <= DurationOf(audio.src)
    /\ Commit(SeekTo(This, t), "seekTo")
    /\ UNCHANGED <<bookVars, now>>

\* the chapter select (line 470)
ChapterSelectChange(c) ==
    /\ bookData # Null
    /\ c \in Chapters
    /\ Commit(LoadChapter(This, c, 0), "chapterSelect")
    /\ UNCHANGED <<bookVars, now>>

\* the previous-chapter button (line 473)
PrevChapterClick ==
    /\ bookData # Null
    /\ Commit(IF currentChapter > 0 THEN LoadChapter(This, currentChapter - 1, 0) ELSE This,
              "prevChapter")
    /\ UNCHANGED <<bookVars, now>>

\* the next-chapter button (line 476)
NextChapterClick ==
    /\ bookData # Null
    /\ Commit(IF currentChapter < ChapterCount - 1
              THEN LoadChapter(This, currentChapter + 1, 0) ELSE This,
              "nextChapter")
    /\ UNCHANGED <<bookVars, now>>

\* the play/pause button
PlayPauseClick ==
    /\ bookData # Null
    /\ Commit(TogglePlay(This), "togglePlay")
    /\ UNCHANGED <<bookVars, now>>

\* a button of the sleep timer dialog (lines 576-581)
TimerValues == {"0", "chapter"} \cup {ToString(m) : m \in 1..MaxMinutes}

SleepTimerClick(value) ==
    /\ bookData # Null
    /\ now <= MaxSetNow
    /\ Commit(SetSleepTimer(This, value), "setSleepTimer")
    /\ UNCHANGED <<bookVars, now>>

\* click on an item of the notes list (lines 1434-1450)
NoteItemClick(k) ==
    /\ bookData # Null
    /\ k \in 1..Len(notes)
    /\ notes[k].bookId = bookData
    /\ LET note == notes[k]
           r1 == IF note.chapter # currentChapter
                 THEN LoadChapter(This, note.chapter, 0) ELSE This
       IN  Commit([r1 EXCEPT !.timers = @ \cup {[kind |-> "flashOn", sentenceId |-> note.sentenceId]}],
                  "noteClick")
    /\ UNCHANGED <<bookVars, now>>

\* highlightSearchResult(sentenceId): a span with that data-id gets
\* 'search-match' and the audio is moved to its sentence
HighlightSearchResult(r, sentenceId) ==
    IF sentenceId \in DOMAIN r.sentenceClass
    THEN SeekToSentence([r EXCEPT !.searchMatch = @ \cup {sentenceId}], sentenceId)
    ELSE r

\* a setTimeout callback runs. Of the note click: after 500 ms the span with
\* the note's data-id gets 'active', 2000 ms later that span loses it. Of
\* the jump to a search result in another chapter: highlightSearchResult
TimeoutFires(t) ==
    /\ t \in timers
    /\ LET r == This
           has == t.sentenceId \in DOMAIN sentenceClass
           r1 == IF t.kind = "searchHighlight"
                 THEN HighlightSearchResult([r EXCEPT !.timers = @ \ {t}], t.sentenceId)
                 ELSE IF t.kind = "flashOn"
                 THEN IF has
                      THEN [r EXCEPT !.sentenceClass[t.sentenceId].active = TRUE,
                                     !.timers = (@ \ {t}) \cup
                                         {[kind |-> "flashOff", sentenceId |-> t.sentenceId]}]
                      ELSE [r EXCEPT !.timers = @ \ {t}]
                 ELSE [r EXCEPT !.sentenceClass[t.sentenceId].active = FALSE,
                                !.timers = @ \ {t}]
       IN  Commit(r1, "timeout")
    /\ UNCHANGED <<bookVars, now>>

\* the browser reads the metadata of the source: readyState rises and the
\* 'loadedmetadata' listeners run
LoadedMetadata ==
    /\ audio.src # NoSrc
    /\ audio.readyState = 0
    /\ ~audio.error
    /\ Commit([This EXCEPT !.audio =
                  [RunLoadedmetadata(HaveMetadata(@), @.onceLoadedmetadata)
                      EXCEPT !.onceLoadedmetadata = <<>>]],
              "loadedmetadata")
    /\ UNCHANGED <<bookVars, now>>

\* the source fails to load: the 'error' listener of lines 786-790 runs
AudioError ==
    /\ audio.src # NoSrc
    /\ audio.readyState = 0
    /\ ~audio.error
    /\ LET a == [audio EXCEPT !.error = TRUE, !.onceError = None]
           a1 == IF audio.onceError # None /\ audio.src.ext = "mp3"
                 THEN SetSrc(a, [chapter |-> audio.onceError[1], ext |-> "wav"])
                 ELSE a
       IN  Commit([This EXCEPT !.audio = a1], "error")
    /\ UNCHANGED <<bookVars, now>>

\* the browser dispatches the next queued media event: 'play' and 'pause'
\* run updatePlayState, 'ended' runs onChapterEnd (lines 442-444)
DispatchMediaEvent ==
    /\ audio.events # <<>>
    /\ LET e == Head(audio.events)
           r == [This EXCEPT !.audio.events = Tail(@)]
       IN  Commit(IF e = "play" THEN UpdatePlayState(r, TRUE)
                  ELSE IF e = "pause" THEN UpdatePlayState(r, FALSE)
                  ELSE OnChapterEnd(r),
                  e)
    /\ UNCHANGED <<bookVars, now>>

\* d seconds pass; a playing element advances, and at the end of the
\* audio it is paused and 'pause' and 'ended' are queued
TimePassesBy(d, maxNow) ==
    /\ now + d <= maxNow
    /\ now' = now + d
    /\ LET a == audio
           playing == ~a.paused /\ a.readyState = 1 /\ a.currentTime < DurationOf(a.src)
           t == a.currentTime + d
           a1 == IF ~playing THEN a
                 ELSE IF t >= DurationOf(a.src)
                 THEN [a EXCEPT !.currentTime = DurationOf(a.src), !.paused = TRUE,
                                !.events = @ \o <<"pause", "ended">>]
                 ELSE [a EXCEPT !.currentTime = t]
       IN  Commit([This EXCEPT !.audio = a1], "time")
    /\ UNCHANGED bookVars

\* one second passes
TimePasses(maxNow) == TimePassesBy(1, maxNow)

\* one second passes, in the first seconds of a day
SecondPasses ==
    /\ now % SecondsPerDay < MaxSetNow
    /\ TimePassesBy(1, now + 1)

\* the reader is left alone for d days
DaysPass(d) == TimePassesBy(d * SecondsPerDay, MaxDays * SecondsPerDay + MaxSetNow)

\* time passes until the clock shows the next of the readings
TimePassesTo(readings) ==
    \E t \in readings :
        /\ t > now
        /\ \A u \in readings : u > now => t <= u
        /\ TimePassesBy(t - now, t)

(***************************************************************************)
(* Keys, touches, skips and jumps.                                         *)
(***************************************************************************)
loadVars == <<bookData, timingData, audioBasePath, audioFiles, textData>>
touchVars == <<touchStartX, touchStartY>>
annotVars == <<notes, bookmarks, highlights, storage, selectedSentenceId>>

\* window.innerWidth
InnerWidth == 400

\* HandleKeyboard with the chapter keys clamping the index, as in
\* loadChapter(Math.max(0, currentChapter - 1)), instead of testing it
HandleKeyboardClamped(r, code) ==
    IF code = "Space" THEN TogglePlay(r)
    ELSE IF code = "ArrowLeft" THEN Seek(r, Max(0, r.audio.currentTime - ArrowSkip))
    ELSE IF code = "ArrowRight" THEN SeekBelowDuration(r, r.audio.currentTime + ArrowSkip)
    ELSE IF code = "ArrowUp"
    THEN (IF bookData # Null THEN LoadChapter(r, Max(0, r.currentChapter - 1), 0) ELSE r)
    ELSE IF code = "ArrowDown"
    THEN (IF bookData # Null
          THEN LoadChapter(r, Min(ChapterCount - 1, r.currentChapter + 1), 0) ELSE r)
    ELSE r

\* handleKeyboard(event) for the keys of playback and navigation; the key B
\* is AddBookmark.  Without a book the read of this.timingData.chapters
\* throws.
HandleKeyboard(r, code) ==
    IF code = "Space" THEN TogglePlay(r)
    ELSE IF code = "ArrowLeft" THEN Seek(r, Max(0, r.audio.currentTime - ArrowSkip))
    ELSE IF code = "ArrowRight" THEN SeekBelowDuration(r, r.audio.currentTime + ArrowSkip)
    ELSE IF code = "ArrowUp"
    THEN (IF r.currentChapter > 0 THEN LoadChapter(r, r.currentChapter - 1, 0) ELSE r)
    ELSE IF code = "ArrowDown"
    THEN (IF bookData # Null /\ r.currentChapter < ChapterCount - 1
          THEN LoadChapter(r, r.currentChapter + 1, 0) ELSE r)
    ELSE r

KeyDown(code) ==
    /\ input' = <<code>>
    /\ Commit(HandleKeyboard(This, code), "keydown")
    /\ UNCHANGED <<loadVars, pageVars, annotVars, touchVars, now>>

\* the skip-back button (lines 450-452)
SkipBackClick ==
    /\ Commit(Seek(This, Max(0, audio.currentTime - SkipBack)), "skipBack")
    /\ UNCHANGED <<bookVars, now>>

\* the skip-forward button (lines 453-455)
SkipForwardClick ==
    /\ Commit(SeekBelowDuration(This, audio.currentTime + SkipForward), "skipForward")
    /\ UNCHANGED <<bookVars, now>>

\* the mouse button is released after a drag that began on the progress bar
\* (startDragging, onMouseUp): the pointer may be beside the bar
DragRelease(t) ==
    /\ input' = <<t>>
    /\ Commit(SeekTo(This, t), "dragRelease")
    /\ UNCHANGED <<loadVars, pageVars, annotVars, touchVars, now>>

\* handleTouchStart(e) on the text
TouchStart(x, y) ==
    /\ touchStartX' = x
    /\ touchStartY' = y
    /\ Commit(This, "touchstart")
    /\ UNCHANGED <<loadVars, pageVars, annotVars, input, now>>

\* handleSwipeEnd(e) with the touch ending at (x, y)
HandleSwipeEnd(r, x, y) ==
    LET deltaX == x - touchStartX
        deltaY == y - touchStartY
    IN  IF Abs(deltaX) > SwipeMin /\ Abs(deltaX) > Abs(deltaY) * 2
        THEN IF deltaX > 0 /\ touchStartX < EdgeWidth /\ r.currentChapter > 0
             THEN ShowToast(LoadChapter(r, r.currentChapter - 1, 0), "Previous chapter")
             ELSE IF deltaX < 0 /\ touchStartX > InnerWidth - EdgeWidth
             THEN (IF bookData # Null /\ r.currentChapter < ChapterCount - 1
                   THEN ShowToast(LoadChapter(r, r.currentChapter + 1, 0), "Next chapter")
                   ELSE r)
             ELSE r
        ELSE r

SwipeEnd(x, y) ==
    /\ input' = <<x, y>>
    /\ Commit(HandleSwipeEnd(This, x, y), "touchend")
    /\ UNCHANGED <<loadVars, pageVars, annotVars, touchVars, now>>

\* jumpToBookmark(bookmark): click on the k-th bookmark of the list
JumpToBookmark(k) ==
    /\ bookData # Null
    /\ k \in 1..Len(bookmarks)
    /\ bookmarks[k].bookId = bookData
    /\ LET bookmark == bookmarks[k]
           r1 == IF bookmark.chapter # currentChapter
                 THEN LoadChapter(This, bookmark.chapter, bookmark.time)
                 ELSE Seek(This, bookmark.time)
       IN  Commit(IF ~r1.isPlaying THEN Play(r1) ELSE r1, "jumpToBookmark")
    /\ input' = <<k>>
    /\ UNCHANGED <<loadVars, pageVars, annotVars, touchVars, now>>

(***************************************************************************)
(* Actions on annotations.                                                 *)
(***************************************************************************)

(***************************************************************************)
(* Settings: the item 'readalong-settings' of localStorage.  A settings    *)
(* record m holds the reader's fields fontSize, theme, playbackSpeed,      *)
(* autoScroll and pageZoom, the playbackRate of the audio element, the     *)
(* stored item and whether an exception left the handler.                  *)
(***************************************************************************)
Speeds == {75, 100, 150}
Themes == {"dark", "light"}
FontSizes == MinFontSize..MaxFontSize
PageZooms == MinPageZoom..MaxPageZoom

TheSettings ==
    [fontSize |-> fontSize, theme |-> theme, playbackSpeed |-> playbackSpeed,
     autoScroll |-> autoScroll, pageZoom |-> pageZoom,
     playbackRate |-> audio.playbackRate, settings |-> settings, thrown |-> FALSE]

\* the fields a new reader and a new audio element start with
DefaultSettings(saved) ==
    [fontSize |-> DefaultFontSize, theme |-> "dark", playbackSpeed |-> DefaultSpeed,
     autoScroll |-> TRUE, pageZoom |-> DefaultPageZoom,
     playbackRate |-> DefaultPlaybackRate, settings |-> saved, thrown |-> FALSE]

BooleanText(b) == IF b THEN "true" ELSE "false"

\* JSON.stringify of the object saveSettings() builds; splitView stays false,
\* the page viewer is never opened here
StringifySettings(m) ==
    [fontSize |-> <<"number", ToString(m.fontSize)>>,
     theme |-> <<"string", m.theme>>,
     speed |-> <<"number", ToString(m.playbackSpeed)>>,
     autoScroll |-> <<"boolean", BooleanText(m.autoScroll)>>,
     splitView |-> <<"boolean", "false">>,
     pageZoom |-> <<"number", ToString(m.pageZoom)>>]

\* JSON.parse of such a text
ParseSettings(text) ==
    [fontSize |-> CHOOSE n \in FontSizes : ToString(n) = text.fontSize[2],
     theme |-> text.theme[2],
     speed |-> CHOOSE n \in Speeds : ToString(n) = text.speed[2],
     autoScroll |-> (text.autoScroll[2] = "true"),
     splitView |-> (text.splitView[2] = "true"),
     pageZoom |-> CHOOSE n \in PageZooms : ToString(n) = text.pageZoom[2]]

\* saveSettings(): setItem throws when the quota is used up
SaveSettings(m) ==
    IF storageFull THEN [m EXCEPT !.thrown = TRUE]
    ELSE [m EXCEPT !.settings = Some(StringifySettings(m))]

\* setSpeed(speed) without its last statement
SetSpeedUnsaved(m, speed) ==
    [m EXCEPT !.playbackSpeed = speed, !.playbackRate = speed]

\* setSpeed(speed)
SetSpeed(m, speed) ==
    SaveSettings([m EXCEPT !.playbackSpeed = speed, !.playbackRate = speed])

\* setFontSize(size)
SetFontSize(m, size) ==
    SaveSettings([m EXCEPT !.fontSize = Max(MinFontSize, Min(MaxFontSize, size))])

\* setTheme(theme)
SetTheme(m, newTheme) == SaveSettings([m EXCEPT !.theme = newTheme])

\* loadSettings() on a new reader: each setter saves the settings as they are
\* at that moment; an exception ends the try block
LoadSettings(saved) ==
    LET m0 == DefaultSettings(saved)
    IN  IF saved = None \/ saved = Some(Corrupt) THEN m0
        ELSE LET stored == ParseSettings(saved[1])
                 m1 == SetFontSize(m0, stored.fontSize)
                 m2 == IF m1.thrown THEN m1 ELSE SetTheme(m1, stored.theme)
                 m3 == IF m2.thrown THEN m2 ELSE SetSpeed(m2, stored.speed)
             IN  IF m3.thrown THEN [m3 EXCEPT !.thrown = FALSE]
                 ELSE [m3 EXCEPT !.autoScroll = stored.autoScroll,
                                 !.pageZoom = stored.pageZoom]

\* the fields of the settings record are written back; an exception that
\* leaves the handler is recorded
CommitSettings(m, ev) ==
    /\ fontSize' = m.fontSize
    /\ theme' = m.theme
    /\ playbackSpeed' = m.playbackSpeed
    /\ autoScroll' = m.autoScroll
    /\ pageZoom' = m.pageZoom
    /\ settings' = m.settings
    /\ audio' = [audio EXCEPT !.playbackRate = m.playbackRate]
    /\ event' = ev
    /\ calls' = IF m.thrown THEN Throw([calls |-> <<>>], "QuotaExceededError").calls
                ELSE <<>>

\* what the handlers of the settings leave alone
settingFrame == <<loadVars, annotVars, progress, storageFull, download, searchPanel,
                  outsideBand, textReader,
                  searchMatch, touchVars, now, currentChapter, currentSentenceIndex,
                  isPlaying, sleepTimerMode, sleepTimerEnd, sentenceClass, timers,
                  timerPauses>>

\* a click on a button of the speed menu
SpeedClick(speed) ==
    /\ CommitSettings(SetSpeed(TheSettings, speed), "setSpeed")
    /\ input' = <<speed>>
    /\ UNCHANGED settingFrame

\* a click on the font size buttons
FontSizeClick(delta) ==
    LET m == SetFontSize(TheSettings, fontSize + delta)
    IN  /\ m.fontSize \in (DefaultFontSize - MaxSteps * FontStep)..
                          (DefaultFontSize + MaxSteps * FontStep)
        /\ CommitSettings(m, "setFontSize")
        /\ input' = <<delta>>
        /\ UNCHANGED settingFrame

\* a click on a theme button
ThemeClick(newTheme) ==
    /\ CommitSettings(SetTheme(TheSettings, newTheme), "setTheme")
    /\ input' = <<newTheme>>
    /\ UNCHANGED settingFrame

\* the auto-scroll checkbox changes
AutoScrollChange(checked) ==
    /\ CommitSettings(SaveSettings([TheSettings EXCEPT !.autoScroll = checked]),
                      "autoScroll")
    /\ input' = <<BooleanText(checked)>>
    /\ UNCHANGED settingFrame

\* zoomPage(delta): the zoom is not saved
ZoomPage(delta) ==
    LET m == [TheSettings EXCEPT
                 !.pageZoom = Max(MinPageZoom, Min(MaxPageZoom, pageZoom + delta))]
    IN  /\ m.pageZoom \in (DefaultPageZoom - MaxSteps * ZoomStep)..
                          (DefaultPageZoom + MaxSteps * ZoomStep)
        /\ CommitSettings(m, "zoomPage")
        /\ input' = <<delta>>
        /\ UNCHANGED settingFrame

\* the constructor: a new reader with the settings loadSettings() restores;
\* the stored items and the clock stay
Construct ==
    /\ bookData' = Null
    /\ timingData' = <<>>
    /\ audioBasePath' = Null
    /\ audioFiles' = {}
    /\ textData' = <<>>
    /\ download' = None
    /\ searchPanel' = None
    /\ searchMatch' = {}
    /\ notes' = <<>>
    /\ bookmarks' = <<>>
    /\ highlights' = <<>>
    /\ selectedSentenceId' = NoSentence
    /\ touchStartX' = 0
    /\ touchStartY' = 0
    /\ input' = <<>>
    /\ currentChapter' = 0
    /\ currentSentenceIndex' = -1
    /\ isPlaying' = FALSE
    /\ sleepTimerMode' = Null
    /\ sleepTimerEnd' = None
    /\ sentenceClass' = RenderText({})
    /\ outsideBand' = {}
    /\ timers' = {}
    /\ timerPauses' = 0
    /\ LET m == LoadSettings(settings)
       IN  /\ fontSize' = m.fontSize
           /\ theme' = m.theme
           /\ playbackSpeed' = m.playbackSpeed
           /\ autoScroll' = m.autoScroll
           /\ pageZoom' = m.pageZoom
           /\ settings' = m.settings
           /\ audio' = [NewAudio EXCEPT !.playbackRate = m.playbackRate]
    /\ event' = "constructor"
    /\ calls' = <<>>
    /\ UNCHANGED <<storage, progress, storageFull, textReader, now>>

\* the page is loaded again while a book is open
Reload ==
    /\ bookData # Null
    /\ Construct

\* the quota of localStorage is used up: from now on setItem throws
StorageFills ==
    /\ ~storageFull
    /\ storageFull' = TRUE
    /\ event' = "storage"
    /\ calls' = <<>>
    /\ UNCHANGED <<loadVars, annotVars, progress, download, searchPanel, searchMatch,
                   settingVars, outsideBand, textReader, touchVars, input, now,
                   currentChapter, currentSentenceIndex,
                   isPlaying, sleepTimerMode, sleepTimerEnd, audio, sentenceClass,
                   timers, timerPauses>>

\* while the page is closed, the stored items are overwritten with a text
\* that JSON.parse rejects
StorageCorrupted ==
    /\ bookData = Null
    /\ storage' = Some(Corrupt)
    /\ progress' = [b \in BookIds |-> Some(Corrupt)]
    /\ event' = "storage"
    /\ calls' = <<>>
    /\ UNCHANGED <<loadVars, pageVars, notes, bookmarks, highlights, selectedSentenceId,
                   searchMatch, touchVars, input, now, currentChapter,
                   currentSentenceIndex, isPlaying, sleepTimerMode, sleepTimerEnd,
                   audio, sentenceClass, timers, timerPauses>>

\* the user selects text inside the sentence span id (handleTextSelection)
TextSelection(id) ==
    /\ id \in DOMAIN sentenceClass
    /\ selectedSentenceId' = id
    /\ Commit(This, "handleTextSelection")
    /\ UNCHANGED <<loadVars, pageVars, notes, bookmarks, highlights, storage, touchVars, input, now>>

\* this.selectedText: the text of the selected sentence
SelectedText == IF selectedSentenceId = NoSentence THEN Null ELSE ToString(selectedSentenceId)

\* the records held by the three lists together
AnnotationCount == Len(bookmarks) + Len(notes) + Len(highlights)

\* addBookmark(): the bookmark button and the key B
AddBookmark ==
    /\ AnnotationCount < MaxAnnotations
    /\ IF bookData = Null
       THEN /\ Commit(This, "addBookmark")
            /\ UNCHANGED <<bookmarks, storage>>
       ELSE LET entries == Entries(currentChapter)
                bookmark ==
                    [id |-> ToString(now),
                     bookId |-> bookData,
                     chapter |-> currentChapter,
                     chapterTitle |-> ToString(currentChapter),
                     time |-> audio.currentTime,
                     text |-> IF currentSentenceIndex >= 0
                              THEN ToString(entries[currentSentenceIndex + 1].id)
                              ELSE "",
                     createdAt |-> ToString(now)]
            IN  /\ bookmarks' = Append(bookmarks, bookmark)
                /\ storage' = SetItem(storage, SaveBookData(bookmarks', notes, highlights))
                /\ Commit(AfterSave(This, "Bookmark added"), "addBookmark")
    /\ UNCHANGED <<loadVars, pageVars, notes, highlights, selectedSentenceId, touchVars, input, now>>

\* removeBookmark(id): the Delete button of a listed bookmark
RemoveBookmark(id) ==
    /\ bookData # Null
    /\ bookmarks' = WithoutId(bookmarks, id)
    /\ storage' = SetItem(storage, SaveBookData(bookmarks', notes, highlights))
    /\ input' = <<id>>
    /\ Commit(AfterSave(This, "Bookmark removed"), "removeBookmark")
    /\ UNCHANGED <<loadVars, pageVars, notes, highlights, selectedSentenceId, touchVars, now>>

\* saveNote() with noteText in the note input; without a book the read of
\* this.bookData.bookId throws
SaveNote(noteText) ==
    /\ AnnotationCount < MaxAnnotations
    /\ IF noteText = "" /\ selectedSentenceId = NoSentence
       THEN /\ Commit(This, "saveNote")
            /\ UNCHANGED <<notes, storage>>
       ELSE IF bookData = Null
       THEN /\ Commit(Throw(This, "TypeError"), "saveNote")
            /\ UNCHANGED <<notes, storage>>
       ELSE LET note ==
                    [id |-> ToString(now),
                     bookId |-> bookData,
                     chapter |-> currentChapter,
                     sentenceId |-> selectedSentenceId,
                     selectedText |-> SelectedText,
                     note |-> noteText,
                     createdAt |-> ToString(now)]
            IN  /\ notes' = Append(notes, note)
                /\ storage' = SetItem(storage, SaveBookData(bookmarks, notes', highlights))
                \* renderNotes() throws on a note without selected text and the
                \* toast is not reached
                /\ Commit(IF \E k \in 1..Len(notes') :
                                 notes'[k].bookId = bookData /\ notes'[k].selectedText = Null
                          THEN Throw(This, IF storageFull THEN "QuotaExceededError"
                                           ELSE "TypeError")
                          ELSE AfterSave(This, "Note saved"),
                          "saveNote")
    /\ UNCHANGED <<loadVars, pageVars, bookmarks, highlights, selectedSentenceId, touchVars, input, now>>

\* RemoveNote without the call of saveBookData()
RemoveNoteNoSave(id) ==
    /\ bookData # Null
    /\ notes' = WithoutId(notes, id)
    /\ input' = <<id>>
    /\ Commit(ShowToast(This, "Note removed"), "removeNote")
    /\ UNCHANGED <<loadVars, pageVars, bookmarks, highlights, storage, selectedSentenceId,
                   touchVars, now>>

\* removeNote(id): the Delete button of a listed note
RemoveNote(id) ==
    /\ bookData # Null
    /\ notes' = WithoutId(notes, id)
    /\ storage' = SetItem(storage, SaveBookData(bookmarks, notes', highlights))
    /\ input' = <<id>>
    /\ Commit(IF \E k \in 1..Len(notes') :
                     notes'[k].bookId = bookData /\ notes'[k].selectedText = Null
              THEN This ELSE AfterSave(This, "Note removed"),
              "removeNote")
    /\ UNCHANGED <<loadVars, pageVars, bookmarks, highlights, selectedSentenceId, touchVars, now>>

\* addHighlight() / addHighlightFromToolbar() with the colour chosen
AddHighlight(color) ==
    /\ AnnotationCount < MaxAnnotations
    /\ IF selectedSentenceId = NoSentence \/ bookData = Null
       THEN /\ Commit(This, "addHighlight")
            /\ UNCHANGED <<highlights, storage>>
       ELSE LET highlight ==
                    [id |-> ToString(now),
                     bookId |-> bookData,
                     chapter |-> currentChapter,
                     sentenceId |-> selectedSentenceId,
                     text |-> SelectedText,
                     color |-> color,
                     createdAt |-> ToString(now)]
            IN  /\ highlights' = Append(highlights, highlight)
                /\ storage' = SetItem(storage, SaveBookData(bookmarks, notes, highlights'))
                /\ Commit(AfterSave(This, "Highlighted"), "addHighlight")
    /\ UNCHANGED <<loadVars, pageVars, bookmarks, notes, selectedSentenceId, touchVars, input, now>>

\* removeHighlight(id): the Delete button of a listed highlight
RemoveHighlight(id) ==
    /\ bookData # Null
    /\ highlights' = WithoutId(highlights, id)
    /\ storage' = SetItem(storage, SaveBookData(bookmarks, notes, highlights'))
    /\ input' = <<id>>
    /\ Commit(AfterSave(This, "Highlight removed"), "removeHighlight")
    /\ UNCHANGED <<loadVars, pageVars, bookmarks, notes, selectedSentenceId, touchVars, now>>

\* ExportContent without the filters by bookId
ExportContentUnfiltered(nt, hl) ==
    [title |-> bookData,
     highlights |-> [i \in 1..Len(hl) |->
                        [number |-> i, text |-> hl[i].text,
                         chapter |-> hl[i].chapter + 1, date |-> hl[i].createdAt]],
     notes |-> [i \in 1..Len(nt) |->
                   [number |-> i, selectedText |-> nt[i].selectedText,
                    note |-> nt[i].note,
                    chapter |-> nt[i].chapter + 1, date |-> nt[i].createdAt]]]

\* the content exportNotesAndHighlights() builds from the lists nt and hl:
\* the title, then one numbered item per highlight and per note of the book
ExportContent(nt, hl) ==
    LET bookNotes == ForBook(nt, bookData)
        bookHighlights == ForBook(hl, bookData)
    IN  [title |-> bookData,
         highlights |-> [i \in 1..Len(bookHighlights) |->
                            [number |-> i, text |-> bookHighlights[i].text,
                             chapter |-> bookHighlights[i].chapter + 1,
                             date |-> bookHighlights[i].createdAt]],
         notes |-> [i \in 1..Len(bookNotes) |->
                       [number |-> i, selectedText |-> bookNotes[i].selectedText,
                        note |-> bookNotes[i].note,
                        chapter |-> bookNotes[i].chapter + 1,
                        date |-> bookNotes[i].createdAt]]]

\* exportNotesAndHighlights(): the export button (line 546)
ExportNotesAndHighlights ==
    /\ IF bookData = Null
       THEN /\ download' = download
            /\ Commit(This, "exportNotes")
       ELSE /\ download' = Some(ExportContent(notes, highlights))
            /\ Commit(ShowToast(This, "Notes exported"), "exportNotes")
    /\ UNCHANGED <<loadVars, annotVars, storageFull, settingVars, outsideBand, textReader, searchPanel, touchVars, input, now>>

(***************************************************************************)
(* Search (lines 1566-1693).                                               *)
(***************************************************************************)
\* the characters typed into the search input
Letters == {"A", "b", " "}

\* String.prototype.toLowerCase, character by character
LowerCaseOf(ch) == IF ch = "A" THEN "a" ELSE IF ch = "B" THEN "b" ELSE ch
ToLowerCase(str) == [k \in 1..Len(str) |-> LowerCaseOf(str[k])]

\* String.prototype.trim
RECURSIVE TrimStart(_)
TrimStart(str) ==
    IF str # <<>> /\ Head(str) = " " THEN TrimStart(Tail(str)) ELSE str

RECURSIVE TrimEnd(_)
TrimEnd(str) ==
    IF str # <<>> /\ str[Len(str)] = " "
    THEN TrimEnd(SubSeq(str, 1, Len(str) - 1)) ELSE str

Trim(str) == TrimEnd(TrimStart(str))

\* String.prototype.includes
Includes(str, part) ==
    \E i \in 0..(Len(str) - Len(part)) : SubSeq(str, i + 1, i + Len(part)) = part

\* timingData.chapters[chapterIndex].title
TitleOf(chapterIndex) == <<"title", chapterIndex>>

\* the walk of performSearch over the sentences of one paragraph
RECURSIVE SearchSentencesCaseSensitive(_, _, _)
SearchSentencesCaseSensitive(sentences, chapterIndex, query) ==
    IF sentences = <<>> THEN <<>>
    ELSE LET sentence == Head(sentences)
             rest == SearchSentencesCaseSensitive(Tail(sentences), chapterIndex, query)
         IN  IF Includes(sentence.text, query)
             THEN <<[chapter |-> chapterIndex, chapterTitle |-> TitleOf(chapterIndex),
                     sentenceId |-> sentence.id, text |-> sentence.text,
                     query |-> query]>> \o rest
             ELSE rest

RECURSIVE SearchSentences(_, _, _)
SearchSentences(sentences, chapterIndex, query) ==
    IF sentences = <<>> THEN <<>>
    ELSE LET sentence == Head(sentences)
             rest == SearchSentences(Tail(sentences), chapterIndex, query)
         IN  IF Includes(ToLowerCase(sentence.text), query)
             THEN <<[chapter |-> chapterIndex, chapterTitle |-> TitleOf(chapterIndex),
                     sentenceId |-> sentence.id, text |-> sentence.text,
                     query |-> query]>> \o rest
             ELSE rest

\* ... over the paragraphs of one chapter
RECURSIVE SearchParagraphs(_, _, _)
SearchParagraphs(paragraphs, chapterIndex, query) ==
    IF paragraphs = <<>> THEN <<>>
    ELSE SearchSentences(Head(paragraphs), chapterIndex, query)
             \o SearchParagraphs(Tail(paragraphs), chapterIndex, query)

\* ... over the chapters from chapterIndex on (lines 1599-1614)
RECURSIVE SearchChapters(_, _, _)
SearchChapters(chapters, chapterIndex, query) ==
    IF chapterIndex >= Len(chapters) THEN <<>>
    ELSE SearchParagraphs(chapters[chapterIndex + 1], chapterIndex, query)
             \o SearchChapters(chapters, chapterIndex + 1, query)

\* the replace of line 1632: every occurrence of the query in the text, from
\* the left and without overlap, is wrapped in <mark>
RECURSIVE Mark(_, _)
Mark(text, query) ==
    IF Len(text) < Len(query) THEN text
    ELSE IF ToLowerCase(SubSeq(text, 1, Len(query))) = query
    THEN <<"<mark>">> \o SubSeq(text, 1, Len(query)) \o <<"</mark>">>
             \o Mark(SubSeq(text, Len(query) + 1, Len(text)), query)
    ELSE <<Head(text)>> \o Mark(Tail(text), query)

\* results.slice(0, 50)
DisplayLimit == 50

ResultItems(shown, query) ==
    [k \in 1..Len(shown) |->
        [chapter |-> ToString(shown[k].chapter),
         sentence |-> shown[k].sentenceId,
         chapterTitle |-> shown[k].chapterTitle,
         text |-> Mark(shown[k].text, query)]]

\* renderSearchResults that counts the items it shows
RenderSearchResultsCountShown(results, query) ==
    LET shown == SubSeq(results, 1, IF Len(results) < DisplayLimit
                                    THEN Len(results) ELSE DisplayLimit)
    IN  IF results = <<>>
        THEN [results |-> results, count |-> None, items |-> <<>>]
        ELSE [results |-> results, count |-> Some(Len(shown)),
              items |-> ResultItems(shown, query)]

\* renderSearchResults(results, query): the panel keeps the list it was given,
\* the count it reports (none with 'No results found.') and its items
RenderSearchResults(results, query) ==
    IF results = <<>>
    THEN [results |-> results, count |-> None, items |-> <<>>]
    ELSE [results |-> results, count |-> Some(Len(results)),
          items |-> ResultItems(SubSeq(results, 1, IF Len(results) < DisplayLimit
                                                   THEN Len(results) ELSE DisplayLimit),
                                query)]

\* performSearch(): the search button and Enter in the search input, which
\* holds value (lines 562-569)
PerformSearch(value) ==
    /\ input' = <<value>>
    /\ LET query == ToLowerCase(Trim(value))
       IN  IF query = <<>>
           THEN /\ searchPanel' = searchPanel
                /\ Commit(This, "performSearch")
           ELSE IF bookData = Null
           THEN /\ searchPanel' = searchPanel
                /\ Commit(Throw(This, "TypeError"), "performSearch")
           ELSE /\ searchPanel' =
                       Some(RenderSearchResults(SearchChapters(textData, 0, query), query))
                /\ Commit(This, "performSearch")
    /\ UNCHANGED <<loadVars, annotVars, storageFull, settingVars, outsideBand, textReader, download, touchVars, now>>

\* closeSearchModal(): the close button of the search modal (line 559)
CloseSearchModal ==
    /\ searchPanel' = None
    /\ Commit([This EXCEPT !.searchMatch = {}], "closeSearch")
    /\ UNCHANGED <<loadVars, annotVars, storageFull, settingVars, outsideBand, textReader, download, touchVars, input, now>>

\* jumpToSearchResult(chapter, sentenceId, query): click on the k-th item of
\* the search panel (lines 1648-1652)
JumpToSearchResult(k) ==
    /\ searchPanel # None
    /\ k \in 1..Len(searchPanel[1].items)
    /\ LET item == searchPanel[1].items[k]
           chapter == ParseInt(item.chapter)
           sentenceId == item.sentence
           r == [This EXCEPT !.searchMatch = {}]
           r1 == IF chapter # currentChapter
                 THEN [LoadChapter(r, chapter, 0) EXCEPT
                          !.timers = @ \cup {[kind |-> "searchHighlight",
                                              sentenceId |-> sentenceId]}]
                 ELSE HighlightSearchResult(r, sentenceId)
       IN  /\ input' = <<k>>
           /\ searchPanel' = None
           /\ Commit([r1 EXCEPT !.searchMatch = {}], "jumpToSearchResult")
    /\ UNCHANGED <<loadVars, annotVars, storageFull, settingVars, outsideBand, textReader, download, touchVars, now>>

\* the ids of the records a list panel shows
ListedIds(list) == {list[k].id : k \in {j \in 1..Len(list) : list[j].bookId = bookData}}

(***************************************************************************)
(* Specifications.                                                         *)
(***************************************************************************)
\* a book served from a base path, or read from a folder that holds the audio
\* of every chapter or lacks that of the second
AudioModes == {<<"base", {}>>, <<Null, {0, 1}>>, <<Null, {0}>>}

\* the reader on a two-chapter book: navigation, playback, chapter end and
\* the sleep timer
Next ==
    \/ \E book \in Books, m \in AudioModes : LoadBook(book, m[1], m[2])
    \/ TimeUpdate
    \/ ProgressBarClick(1)
    \/ PlayPauseClick
    \/ \E v \in {"0", "chapter", "1"} : SleepTimerClick(v)
    \/ LoadedMetadata
    \/ AudioError
    \/ DispatchMediaEvent
    \/ TimePasses(MaxNow)

Spec == Init /\ [][Next]_vars

\* a three-chapter book of one-second chapters
NavBook ==
    << <<[id |-> 1, start |-> 0, end |-> 1]>>,
       <<[id |-> 2, start |-> 0, end |-> 1]>>,
       <<[id |-> 3, start |-> 0, end |-> 1]>> >>

\* where a touch starts and ends: near the left edge, mid-screen, near the
\* right edge; level or slanted
TouchXs == {EdgeWidth - 1, InnerWidth \div 2, InnerWidth - EdgeWidth + 1}
TouchYs == {0, SwipeMin}

\* chapter navigation by buttons, keys, swipes and the end of a chapter
NextNav ==
    \/ LoadBook(NavBook, "base", {})
    \/ PrevChapterClick
    \/ NextChapterClick
    \/ \E code \in {"ArrowUp", "ArrowDown"} : KeyDown(code)
    \/ \E x \in TouchXs : TouchStart(x, 0)
    \/ \E x \in TouchXs, y \in TouchYs : SwipeEnd(x, y)
    \/ PlayPauseClick
    \/ LoadedMetadata
    \/ DispatchMediaEvent
    \/ TimePasses(MaxNow)

SpecNav == Init /\ [][NextNav]_vars

\* a one-chapter book long enough for every skip to land inside it
SeekBook == << <<[id |-> 1, start |-> 0, end |-> SkipForward + ArrowSkip]>> >>

\* places of the pointer on the axis of the progress bar, as times: on the
\* bar, and beside it on either side
BarTimes == {0, ArrowSkip + 2, SkipForward + ArrowSkip}
DragTimes == BarTimes \cup {-1, SkipForward + ArrowSkip + 1}

\* seeks and skips within a chapter
NextSeek ==
    \/ LoadBook(SeekBook, "base", {})
    \/ LoadedMetadata
    \/ \E t \in BarTimes : ProgressBarClick(t)
    \/ \E t \in DragTimes : DragRelease(t)
    \/ SkipBackClick
    \/ SkipForwardClick
    \/ \E code \in {"ArrowLeft", "ArrowRight"} : KeyDown(code)

SpecSeek == Init /\ [][NextSeek]_vars

\* chapter loads from a base path, with the loads, failures, seeks and
\* bookmark jumps that can fall between a load and its audio becoming ready
NextLoad ==
    \/ LoadBook(MainBook, "base", {})
    \/ \E c \in 0..1 : ChapterSelectChange(c)
    \/ \E id \in {2, 3} : SentenceClick(id)
    \/ ProgressBarClick(1)
    \/ PlayPauseClick
    \/ now = 0 /\ bookmarks = <<>> /\ AddBookmark
    \/ JumpToBookmark(1)
    \/ LoadedMetadata
    \/ AudioError
    \/ DispatchMediaEvent

SpecLoad == Init /\ [][NextLoad]_vars

\* an id that no record has
NoRecordId == "x"

\* annotations of two books over reloads of the page
NextAnnot ==
    \/ \E bookId \in BookIds : LoadBookAs(bookId, MainBook, "base", {})
    \/ storage # None /\ Reload
    \/ selectedSentenceId = NoSentence /\ TextSelection(1)
    \/ AddBookmark
    \/ SaveNote("n")
    \/ AddHighlight("yellow")
    \/ \E id \in ListedIds(bookmarks) \cup {NoRecordId} : RemoveBookmark(id)
    \/ \E id \in ListedIds(notes) : RemoveNote(id)
    \/ \E id \in ListedIds(highlights) : RemoveHighlight(id)
    \/ TimePasses(MaxSetNow)

SpecAnnot == Init /\ [][NextAnnot]_vars

\* exports of the notes and highlights of two books
NextExport ==
    \/ \E bookId \in BookIds : LoadBookAs(bookId, MainBook, "base", {})
    \/ storage # None /\ Reload
    \/ \E c \in 0..1 : ChapterSelectChange(c)
    \/ \E id \in {1, 3} : TextSelection(id)
    \/ SaveNote("n")
    \/ AddHighlight("yellow")
    \/ ExportNotesAndHighlights

SpecExport == Init /\ [][NextExport]_vars

\* the texts drawn for a sentence, and the texts typed into the search input
SentenceTexts == {<<"a">>, <<"A", "b">>, <<"B", " ", "A">>}
RECURSIVE Strings(_)
Strings(n) ==
    IF n = 0 THEN {<<>>}
    ELSE Strings(n - 1) \cup {Append(str, ch) : str \in Strings(n - 1), ch \in Letters}

\* text maps of MainBook: its first chapter in two paragraphs
SearchTexts ==
    {<< << <<[id |-> 1, text |-> t1]>>, <<[id |-> 2, text |-> t2]>> >>,
        << <<[id |-> 3, text |-> t3]>> >> >> :
        t1 \in SentenceTexts, t2 \in SentenceTexts, t3 \in SentenceTexts}

\* a book with more sentences than the search panel shows: one second each
LongBook ==
    << [k \in 1..DisplayLimit |-> [id |-> k, start |-> k - 1, end |-> k]],
       [k \in 1..MaxEntries |->
           [id |-> DisplayLimit + k, start |-> k - 1, end |-> k]] >>

LongText ==
    [c \in 1..Len(LongBook) |->
        << [k \in 1..Len(LongBook[c]) |->
               [id |-> LongBook[c][k].id,
                text |-> IF LongBook[c][k].id % 2 = 1 THEN <<"a">> ELSE <<"A", "b">>]] >>]

\* searches in every text map, with and without a book
NextSearch ==
    \/ \E text \in SearchTexts : LoadBookText("book", MainBook, text, "base", {})
    \/ LoadBookText("book", LongBook, LongText, "base", {})
    \/ Reload
    \/ \E value \in Strings(MaxQuery) : PerformSearch(value)
    \/ CloseSearchModal

SpecSearch == Init /\ [][NextSearch]_vars

\* book loads with parts missing or malformed, between complete loads
NextParts ==
    \/ \E bookId \in BookIds : LoadBookAs(bookId, MainBook, "base", {})
    \/ \E bookId \in BookIds, manifest \in PartStates, timing \in PartStates,
          text \in PartStates : LoadBookParts(bookId, MainBook, manifest, timing, text)
    \/ Reload
    \/ timingData # <<>> /\ now = 0 /\ AddBookmark
    \/ NextChapterClick /\ timingData # <<>> /\ textData # <<>>
    \/ TimeUpdate
    \/ TimePasses(MaxSetNow)

SpecParts == Init /\ [][NextParts]_vars

\* jumps to the results of a search, in the current and in another chapter
NextJump ==
    \/ LoadBookText("book", MainBook,
                    CHOOSE text \in SearchTexts : \A c \in 1..Len(text) :
                        \A p \in 1..Len(text[c]) : text[c][p][1].text = <<"A", "b">>,
                    "base", {})
    \/ PerformSearch(<<"b">>)
    \/ CloseSearchModal
    \/ \E k \in 1..(MaxEntries + 1) : JumpToSearchResult(k)
    \/ \E t \in timers : TimeoutFires(t)
    \/ LoadedMetadata
    \/ DispatchMediaEvent
    \/ NextChapterClick
    \/ PrevChapterClick

SpecJump == Init /\ [][NextJump]_vars

\* the shortest absence drawn: one day less than the progress record lasts
MinDays == ProgressTtl \div SecondsPerDay - 1

\* progress records of two books across reloads and absences of about
\* thirty days
NextProgress ==
    \/ \E bookId \in BookIds : LoadBookAs(bookId, MainBook, "base", {})
    \/ Reload
    \/ LoadedMetadata
    \/ NextChapterClick
    \/ ProgressBarClick(1)
    \/ TimeUpdate
    \/ SecondPasses
    \/ \E d \in MinDays..MaxDays : DaysPass(d)

SpecProgress == Init /\ [][NextProgress]_vars

\* the sentence lookup on every one-chapter book with a sorted entry list
NextLocate ==
    \/ \E book \in LocateBooks : LoadBook(book, "base", {})
    \/ TimeUpdate
    \/ \E id \in DOMAIN sentenceClass : SentenceClick(id)
    \/ \E t \in 0..MaxTime : ProgressBarClick(t)
    \/ LoadedMetadata
    \/ DispatchMediaEvent

SpecLocate == Init /\ [][NextLocate]_vars

\* the rendered text under ticks, seeks, chapter loads and clicks on the
\* notes list
NextNotes ==
    \/ LoadBook(MainBook, "base", {})
    \/ \E id \in DOMAIN sentenceClass : selectedSentenceId = NoSentence /\ TextSelection(id)
    \/ notes = <<>> /\ SaveNote("")
    \/ TimeUpdate
    \/ \E id \in DOMAIN sentenceClass : SentenceClick(id)
    \/ \E t \in 0..MaxTime : ProgressBarClick(t)
    \/ \E c \in 0..1 : ChapterSelectChange(c)
    \/ \E k \in 1..1 : NoteItemClick(k)
    \/ \E t \in timers : TimeoutFires(t)
    \/ LoadedMetadata
    \/ DispatchMediaEvent

SpecNotes == Init /\ [][NextNotes]_vars

\* the sleep timer against the clock
NextSleep ==
    \/ LoadBook(MainBook, "base", {})
    \/ TimeUpdate
    \/ PlayPauseClick
    \/ \E v \in TimerValues : SleepTimerClick(v)
    \/ LoadedMetadata
    \/ DispatchMediaEvent
    \/ TimePassesTo(SleepReadings)

SpecSleep == Init /\ [][NextSleep]_vars

\* a reader whose storage is full or holds a corrupt text
NextStorage ==
    \/ LoadBook(MainBook, "base", {})
    \/ StorageFills
    \/ StorageCorrupted
    \/ now = 0 /\ bookmarks = <<>> /\ AddBookmark
    \/ TimeUpdate
    \/ PlayPauseClick
    \/ SleepTimerClick("1")
    \/ LoadedMetadata
    \/ DispatchMediaEvent
    \/ TimePassesTo(SleepReadings)

SpecStorage == Init /\ [][NextStorage]_vars

(***************************************************************************)
(* Properties of the sentence lookup (checked under SpecLocate).           *)
(***************************************************************************)
\* the entries of the current chapter and the 0-based indices into them
CurEntries == IF bookData = Null THEN <<>> ELSE Entries(currentChapter)
CurIndices == 0..(Len(CurEntries) - 1)
InWindow(i, t) == CurEntries[i + 1].start <= t /\ t < CurEntries[i + 1].end
\* the state right after a tick (onTimeUpdate) at time audio.currentTime
AfterTick == event = "timeupdate"

\* C1 as stated: after a tick at time t, every entry i whose window
\* [start, end) contains t is the current sentence.
C1Original ==
    AfterTick =>
        \A i \in CurIndices :
            InWindow(i, audio.currentTime) => currentSentenceIndex = i

\* C1 (amended): after a tick at time t on a list sorted by start, the
\* current sentence is the first entry whose window [start, end) contains t.
C1Theorem ==
    AfterTick =>
        \A i \in CurIndices :
            (/\ InWindow(i, audio.currentTime)
             /\ \A j \in 0..(i - 1) : ~InWindow(j, audio.currentTime))
            => currentSentenceIndex = i

C1Witness ==
    /\ AfterTick
    /\ \E i \in CurIndices :
          /\ i > 0
          /\ InWindow(i, audio.currentTime)
          /\ \A j \in 0..(i - 1) : ~InWindow(j, audio.currentTime)
          /\ currentSentenceIndex = i

\* the scan stops at entry i on the gap rule: i is the first entry that
\* starts after t, and no entry before it has t in its window
GapBreakAt(i, t) ==
    /\ t < CurEntries[i + 1].start
    /\ \A j \in 0..(i - 1) : ~(t < CurEntries[j + 1].start) /\ ~InWindow(j, t)

ScanExhausted(t) ==
    \A i \in CurIndices : ~InWindow(i, t) /\ ~(t < CurEntries[i + 1].start)

\* C3: after a tick at time t on a non-empty list, if the scan finds neither
\* a window nor a gap (so t >= the last entry's start), the current sentence
\* is the last entry.
C3Theorem ==
    (AfterTick /\ CurEntries # <<>> /\ ScanExhausted(audio.currentTime))
        => currentSentenceIndex = Len(CurEntries) - 1

C3Witness ==
    /\ AfterTick
    /\ Len(CurEntries) >= 2
    /\ ScanExhausted(audio.currentTime)
    /\ audio.currentTime >= CurEntries[Len(CurEntries)].end
    /\ currentSentenceIndex = Len(CurEntries) - 1

(***************************************************************************)
(* Seeking to a sentence (checked under SpecLocate).                       *)
(***************************************************************************)
\* the state right after seekToSentence(id); the id is that of the logged call
AfterSeekToSentence == event = "seekToSentence"
SoughtId == calls[1].id
\* no entry before i has the start of entry i in its window
NoEarlierCover(i) == \A j \in 0..(i - 1) : ~InWindow(j, CurEntries[i + 1].start)

\* C4 as stated: after seekToSentence(entries[i].id) the playback time is
\* entries[i].start and the sentence lookup at that time returns i.
C4Original ==
    AfterSeekToSentence =>
        \A i \in CurIndices :
            CurEntries[i + 1].id = SoughtId =>
                /\ audio.currentTime = CurEntries[i + 1].start
                /\ FindCurrentIndex(CurEntries, audio.currentTime) = i

\* C4 (amended): after seekToSentence(entries[i].id), if the metadata of the
\* audio is loaded the playback time is entries[i].start, and the lookup at
\* that time returns i when no earlier entry's window contains that start;
\* if the metadata is not loaded the time is not set yet and the newest
\* 'loadedmetadata' listener is the one that seeks to entries[i].start and
\* plays.
C4Theorem ==
    AfterSeekToSentence =>
        \A i \in CurIndices :
            CurEntries[i + 1].id = SoughtId =>
                /\ audio.readyState >= 1 =>
                      /\ audio.currentTime = CurEntries[i + 1].start
                      /\ NoEarlierCover(i) =>
                            FindCurrentIndex(CurEntries, audio.currentTime) = i
                /\ audio.readyState = 0 =>
                      /\ audio.onceLoadedmetadata # <<>>
                      /\ audio.onceLoadedmetadata[Len(audio.onceLoadedmetadata)] =
                            [time |-> CurEntries[i + 1].start, play |-> TRUE]

C4Witness ==
    /\ AfterSeekToSentence
    /\ audio.readyState >= 1
    /\ \E i \in CurIndices :
          /\ i > 0
          /\ CurEntries[i + 1].id = SoughtId
          /\ NoEarlierCover(i)
          /\ audio.currentTime = CurEntries[i + 1].start
          /\ audio.currentTime > 0
          /\ FindCurrentIndex(CurEntries, audio.currentTime) = i

(***************************************************************************)
(* The rendered sentences (checked under SpecNotes).                       *)
(***************************************************************************)
\* the state right after a tick, a seek or a chapter load
AfterTickSeekLoad ==
    event \in {"timeupdate", "seekToSentence", "seekTo", "chapterSelect",
               "initializeReader"}

\* C5: after every tick, seek and chapter load each sentence of the current
\* chapter is played if its index is below currentSentenceIndex, active if
\* its index equals it and unplayed otherwise.
C5Claim ==
    (bookData # Null /\ AfterTickSeekLoad) =>
        \A i \in CurIndices :
            LET id == CurEntries[i + 1].id
            IN  id \in DOMAIN sentenceClass =>
                    sentenceClass[id] = [active |-> i = currentSentenceIndex,
                                         played |-> i < currentSentenceIndex]

(***************************************************************************)
(* The sleep timer (checked under SpecSleep).                              *)
(***************************************************************************)
\* some call of the handler that just ran is op
Issued(cs, op) == \E k \in 1..Len(cs) : cs[k].op = op
\* the countdown has reached its deadline: remaining <= 0
Expired == sleepTimerMode = "minutes" /\ now >= sleepTimerEnd[1]

\* a tick: at the deadline of a countdown it pauses playback once and leaves
\* the timer idle; before the deadline, and in any other mode, it pauses
\* nothing and leaves the timer as it is
C6Tick ==
    event' = "timeupdate" =>
        IF Expired
        THEN /\ Issued(calls', "pause")
             /\ audio'.paused
             /\ timerPauses' = timerPauses + 1
             /\ sleepTimerMode' = Null
             /\ sleepTimerEnd' = None
        ELSE /\ ~Issued(calls', "pause")
             /\ audio'.paused = audio.paused
             /\ timerPauses' = timerPauses
             /\ sleepTimerMode' = sleepTimerMode
             /\ sleepTimerEnd' = sleepTimerEnd

\* setSleepTimer for m minutes puts the deadline m * 60 seconds ahead and
\* starts the count of pauses afresh
C6Set ==
    (event' = "setSleepTimer" /\ sleepTimerMode' = "minutes") =>
        /\ sleepTimerEnd' = Some(now + calls'[Len(calls')].id * SecondsPerMinute)
        /\ calls'[Len(calls')].id >= 1
        /\ timerPauses' = 0

\* once the timer has paused playback it stays idle, and the count of its
\* pauses stays, until setSleepTimer is called again
C6Stays ==
    (timerPauses = 1 /\ event' # "setSleepTimer") =>
        /\ timerPauses' = 1
        /\ sleepTimerMode' = Null

\* C6: after setSleepTimer for m minutes the timer pauses playback exactly
\* once, on the first tick at or after m * 60 seconds (remaining <= 0); the
\* mode is idle from then on and no later tick pauses again.
C6Theorem ==
    /\ [](timerPauses <= 1)
    /\ [][C6Tick /\ C6Set /\ C6Stays]_vars

\* the tick at the deadline has just paused a playing element
C6Witness ==
    /\ event = "timeupdate"
    /\ timerPauses = 1
    /\ sleepTimerMode = Null
    /\ now >= MaxMinutes * SecondsPerMinute
    /\ audio.paused
    /\ isPlaying
    /\ audio.events # <<>>
    /\ audio.events[Len(audio.events)] = "pause"
    /\ Issued(calls, "pause")

\* the timer state setSleepTimer(value) leaves when called on an idle timer,
\* value being read from the toast it shows
FromIdle(toast) ==
    IF toast.msg = "Sleep timer cancelled" THEN <<Null, None>>
    ELSE IF toast.msg = "Will stop at end of chapter" THEN <<"chapter", None>>
    ELSE <<"minutes", Some(now + toast.id * SecondsPerMinute)>>

\* C8: the timer mode is one of idle (null), 'minutes' and 'chapter', and
\* a deadline exists exactly in mode 'minutes'; setSleepTimer(x) called in
\* any timer state leaves the state it leaves when called on an idle timer,
\* which for the cancel value is idle with no deadline.
C8Theorem ==
    /\ [](/\ sleepTimerMode \in {Null, "minutes", "chapter"}
          /\ (sleepTimerEnd # None) <=> (sleepTimerMode = "minutes"))
    /\ [][event' = "setSleepTimer" =>
             /\ calls'[1].op = "cancelSleepTimer"
             /\ <<sleepTimerMode', sleepTimerEnd'>> = FromIdle(calls'[Len(calls')])]_vars

\* a running countdown has just been replaced by the end-of-chapter mode
C8Witness ==
    /\ event = "setSleepTimer"
    /\ calls[1].op = "cancelSleepTimer"
    /\ calls[1].msg = "minutes"
    /\ sleepTimerMode = "chapter"
    /\ sleepTimerEnd = None

(***************************************************************************)
(* The end of a chapter (checked under Spec).                              *)
(***************************************************************************)
\* the step runs onChapterEnd: the 'ended' event is dispatched
ChapterEnds == event' = "ended"
LoadChapterCall(c, p) ==
    [op |-> "loadChapter", chapter |-> c, pos |-> p, id |-> -1, msg |-> ""]
PlayCall == [op |-> "play", chapter |-> -1, pos |-> -1, id |-> -1, msg |-> ""]
\* loadChapter(c) finds audio to load: a base path, or the chapter's file
\* in the selected folder
HasAudio(c) == audioBasePath # Null \/ c \in audioFiles

\* C7: when onChapterEnd runs in timer mode 'chapter', the timer is
\* cancelled (mode null, no deadline), currentChapter stays, and neither
\* loadChapter nor play is called: the audio keeps its source and stays as
\* it was, also when a next chapter exists.
C7Theorem ==
    [][(ChapterEnds /\ sleepTimerMode = "chapter") =>
          /\ sleepTimerMode' = Null
          /\ sleepTimerEnd' = None
          /\ currentChapter' = currentChapter
          /\ currentSentenceIndex' = currentSentenceIndex
          /\ ~Issued(calls', "loadChapter")
          /\ ~Issued(calls', "play")
          /\ audio'.src = audio.src
          /\ audio'.paused = audio.paused
          /\ audio'.currentTime = audio.currentTime]_vars

\* the end-of-chapter timer has just stopped the book before its last chapter
C7Witness ==
    /\ event = "ended"
    /\ Len(calls) = 2
    /\ calls[1].op = "cancelSleepTimer"
    /\ calls[1].msg = "chapter"
    /\ calls[2].msg = "Sleep timer ended"
    /\ sleepTimerMode = Null
    /\ currentChapter < ChapterCount - 1
    /\ audio.paused

\* C9: when onChapterEnd runs in a timer mode other than 'chapter' and
\* currentChapter < chapterCount - 1, it calls loadChapter(currentChapter +
\* 1) with start position 0 and then audio.play(): the next chapter is
\* current with no sentence current, the element is playing unless it is
\* left with a source that failed to load, and where the chapter has audio
\* the element holds it at time 0.
C9Theorem ==
    [][(ChapterEnds /\ sleepTimerMode # "chapter" /\ currentChapter < ChapterCount - 1) =>
          /\ calls' = <<LoadChapterCall(currentChapter + 1, 0), PlayCall>>
          /\ currentChapter' = currentChapter + 1
          /\ currentSentenceIndex' = -1
          /\ sentenceClass' = RenderText(SentenceIds(currentChapter + 1))
          /\ (HasAudio(currentChapter + 1) \/ ~audio.error) =>
                /\ ~audio'.paused
                /\ audio'.events # <<>>
                /\ audio'.events[Len(audio'.events)] = "play"
          /\ HasAudio(currentChapter + 1) =>
                /\ audio'.src.chapter = currentChapter + 1
                /\ audio'.currentTime = 0
                /\ audio'.readyState = 0
          /\ <<sleepTimerMode', sleepTimerEnd'>> = <<sleepTimerMode, sleepTimerEnd>>]_vars

\* the first chapter has just ended after a sentence of it had become current
\* and the second is loading and playing
C9Witness ==
    /\ event = "ended"
    /\ calls = <<LoadChapterCall(1, 0), PlayCall>>
    /\ currentChapter = 1
    /\ currentSentenceIndex = -1
    /\ audio.src.chapter = 1
    /\ ~audio.paused

\* C10: when onChapterEnd runs on the last chapter in a timer mode other
\* than 'chapter', the handler signals "book finished" (it makes some call
\* that reaches the caller) and currentChapter is unchanged.
C10Claim ==
    [][(ChapterEnds /\ sleepTimerMode # "chapter" /\ currentChapter = ChapterCount - 1) =>
          /\ calls' # <<>>
          /\ currentChapter' = currentChapter]_vars

(***************************************************************************)
(* Chapter navigation (checked under SpecNav).                             *)
(***************************************************************************)
\* the gesture that ends at input' is a chapter swipe to the right from the
\* left edge / to the left from the right edge
SwipeIsHorizontal ==
    /\ Abs(input'[1] - touchStartX) > SwipeMin
    /\ Abs(input'[1] - touchStartX) > Abs(input'[2] - touchStartY) * 2
PrevSwipe == SwipeIsHorizontal /\ input'[1] > touchStartX /\ touchStartX < EdgeWidth
NextSwipe ==
    SwipeIsHorizontal /\ input'[1] < touchStartX /\ touchStartX > InnerWidth - EdgeWidth

\* the step asks for the previous / the next chapter
PrevRequest ==
    \/ event' = "prevChapter"
    \/ event' = "keydown" /\ input' = <<"ArrowUp">>
    \/ event' = "touchend" /\ PrevSwipe
NextRequest ==
    \/ event' = "nextChapter"
    \/ event' = "keydown" /\ input' = <<"ArrowDown">>
    \/ event' = "touchend" /\ NextSwipe

\* C11: with a book loaded currentChapter is always in [0, chapterCount);
\* a request for the previous chapter at chapter 0, and one for the next
\* chapter at the last chapter, makes no call and leaves currentChapter and
\* the audio element as they are; elsewhere the request moves one chapter.
C11Theorem ==
    /\ [](bookData # Null => currentChapter \in 0..(ChapterCount - 1))
    /\ [][/\ (bookData # Null /\ PrevRequest) =>
                IF currentChapter = 0
                THEN currentChapter' = 0 /\ audio' = audio /\ calls' = <<>>
                ELSE currentChapter' = currentChapter - 1
          /\ (bookData # Null /\ NextRequest) =>
                IF currentChapter = ChapterCount - 1
                THEN currentChapter' = currentChapter /\ audio' = audio /\ calls' = <<>>
                ELSE currentChapter' = currentChapter + 1
          /\ (bookData = Null /\ event' \in {"keydown", "touchend"}) =>
                currentChapter' = currentChapter /\ audio' = audio]_vars

\* the last chapter was reached and a swipe for the next one has changed
\* nothing
C11Witness ==
    /\ event = "touchend"
    /\ bookData # Null
    /\ currentChapter = ChapterCount - 1
    /\ currentChapter = 2
    /\ touchStartX > InnerWidth - EdgeWidth
    /\ input[1] < touchStartX - SwipeMin
    /\ input[2] = touchStartY
    /\ calls = <<>>
    /\ audio.src.chapter = 2

(***************************************************************************)
(* Seeks and skips (checked under SpecSeek).                               *)
(***************************************************************************)
\* the state right after a seek or skip of the user
AfterSeekOrSkip ==
    event \in {"seekTo", "dragRelease", "skipBack", "skipForward", "keydown"}

\* C12: after every seek or skip (progress-bar click, drag release, the
\* arrow keys, the skip buttons) the time the handler asked the element for
\* lies in [0, duration], and so does the playback time.
C12Claim ==
    (AfterSeekOrSkip /\ audio.src # NoSrc) =>
        /\ \A k \in 1..Len(calls) :
              calls[k].op = "setCurrentTime" =>
                  0 <= calls[k].pos /\ calls[k].pos <= DurationOf(audio.src)
        /\ 0 <= audio.currentTime /\ audio.currentTime <= DurationOf(audio.src)

(***************************************************************************)
(* Chapter loads (checked under SpecLoad).                                 *)
(***************************************************************************)
LoadCalls(cs) == {k \in 1..Len(cs) : cs[k].op = "loadChapter"}

\* the last loadChapter call of a handler's call log
LastLoadCall(cs) == cs[CHOOSE k \in LoadCalls(cs) : \A j \in LoadCalls(cs) : j <= k]

\* a step in which the audio becomes ready right after the handler that
\* loaded its chapter
ReadyAfterLoad ==
    /\ LoadCalls(calls) # {}
    /\ event' = "loadedmetadata"

\* C13: a handler that calls loadChapter(k, p) leaves currentChapter = k,
\* currentSentenceIndex = -1 and the position of the new source at 0; when
\* the audio becomes ready next, the position is p.
C13Claim ==
    [][/\ LoadCalls(calls') # {} =>
            /\ currentChapter' = LastLoadCall(calls').chapter
            /\ currentSentenceIndex' = -1
            /\ audio'.currentTime = 0
       /\ ReadyAfterLoad => audio'.currentTime = LastLoadCall(calls).pos]_vars

\* the file of a chapter in one of its two forms
FileOf(c, ext) == [chapter |-> c, ext |-> ext]

\* C14: from a base path loadChapter(k) sets the source to the MP3 of
\* chapter k; a load error on an MP3 source switches to the WAV of the same
\* chapter, and a load error on a WAV source changes no source.
C14Claim ==
    [][/\ (LoadCalls(calls') # {} /\ audioBasePath' # Null) =>
            audio'.src = FileOf(LastLoadCall(calls').chapter, "mp3")
       /\ event' = "error" =>
            audio'.src = IF audio.src.ext = "mp3"
                         THEN FileOf(audio.src.chapter, "wav")
                         ELSE audio.src]_vars

\* C16: when the audio becomes ready right after a handler that called
\* loadChapter(b, q), nothing registered before that load is applied: the
\* position is q, and nothing starts playback or queues a media event.
C16Claim ==
    [][ReadyAfterLoad =>
            /\ audio'.currentTime = LastLoadCall(calls).pos
            /\ audio'.paused = audio.paused
            /\ audio'.events = audio.events]_vars

\* both forms of the chapter's audio have failed to load
Unavailable(a) == a.error

\* C15: the error that leaves the chapter without audio is signalled by the
\* handler (some call is made); afterwards a sentence seek or the play
\* button leaves the audio element as it is and shows a warning.
C15Claim ==
    [][/\ (event' = "error" /\ Unavailable(audio')) => calls' # <<>>
       /\ (Unavailable(audio) /\ event' \in {"seekToSentence", "togglePlay"}) =>
            /\ audio' = audio
            /\ \E k \in 1..Len(calls') : calls'[k].op = "showToast"]_vars

(***************************************************************************)
(* Annotations and their stored document (checked under SpecAnnot).        *)
(***************************************************************************)
\* the three lists the reader holds
InMemory == [bookmarks |-> bookmarks, notes |-> notes, highlights |-> highlights]

\* the three lists a newly constructed reader has after loadBookData()
FreshlyLoaded(saved) == LoadBookData(saved, <<>>, <<>>, <<>>)

AddEvents == {"addBookmark", "saveNote", "addHighlight"}

\* a step of an add handler that added a record
Added ==
    /\ event' \in AddEvents
    /\ Len(bookmarks') + Len(notes') + Len(highlights') > AnnotationCount

\* C17: after every add, and at every reload of the page, what a newly
\* constructed reader loads from the stored document is the three lists the
\* reader held, field by field; and a reader that opens a book after a
\* reload holds exactly what it loaded.
C17Theorem ==
    [][/\ Added => FreshlyLoaded(storage') = InMemory'
       /\ (bookData # Null /\ event' = "constructor") =>
              FreshlyLoaded(storage') = InMemory
       /\ (event = "constructor" /\ event' = "initializeReader") =>
              InMemory' = FreshlyLoaded(storage)]_vars

\* a reader that opened the book after a reload holds a bookmark and a
\* highlight made before it
C17Witness ==
    /\ event = "initializeReader"
    /\ bookmarks # <<>>
    /\ highlights # <<>>

\* the records of a list whose id is not id, in the order of the list
Others(list, id) == SelectSeq(list, LAMBDA x : x.id # id)

\* C18: removeBookmark(id) leaves in the bookmark list exactly the bookmarks
\* with another id, in their order, in the stored document and in the
\* listing as well; notes and highlights are unchanged; with an id that no
\* bookmark has the bookmark list is unchanged too.
C18Theorem ==
    [][event' = "removeBookmark" =>
          LET id == input'[1]
          IN  /\ bookmarks' = Others(bookmarks, id)
              /\ FreshlyLoaded(storage').bookmarks = Others(bookmarks, id)
              /\ id \notin {RenderBookmarks(bookmarks')[k].id :
                               k \in 1..Len(RenderBookmarks(bookmarks'))}
              /\ notes' = notes
              /\ highlights' = highlights
              /\ FreshlyLoaded(storage').notes = notes
              /\ FreshlyLoaded(storage').highlights = highlights
              /\ (\A k \in 1..Len(bookmarks) : bookmarks[k].id # id) =>
                    bookmarks' = bookmarks]_vars

\* a bookmark has been removed and a later one is still listed
C18Witness ==
    /\ event = "removeBookmark"
    /\ input # <<NoRecordId>>
    /\ bookmarks # <<>>
    /\ \A k \in 1..Len(bookmarks) : ToString(now) = bookmarks[k].id

RemoveEvents == {"removeBookmark", "removeNote", "removeHighlight"}

\* C19: a reader with a book holds the lists of the stored document; every
\* add that added a record and every remove leaves a stored document whose
\* three lists are the three lists in memory, and the document is never
\* changed in any other way.
C19Theorem ==
    /\ []((bookData # Null /\ storage # None) => FreshlyLoaded(storage) = InMemory)
    /\ [][/\ (Added \/ event' \in RemoveEvents) =>
                /\ storage' # None
                /\ ParseAll(storage'[1].bookmarks) = bookmarks'
                /\ ParseAll(storage'[1].notes) = notes'
                /\ ParseAll(storage'[1].highlights) = highlights'
          /\ storage' # storage =>
                /\ Added \/ event' \in RemoveEvents
                /\ storage' = SaveBookData(bookmarks', notes', highlights')]_vars

\* a note has been removed while a record of another kind is kept
C19Witness ==
    /\ event = "removeNote"
    /\ notes = <<>>
    /\ Len(bookmarks) + Len(highlights) > 0
    /\ storage # None

\* the clock reading a record's createdAt was written from
CreatedAt(rec) == CHOOSE n \in 0..MaxNow : ToString(n) = rec.createdAt

\* listed shows exactly the records of list that belong to the open book
OfTheBook(listed, list) ==
    /\ \A k \in 1..Len(listed) : listed[k].bookId = bookData
    /\ Len(listed) = Cardinality({k \in 1..Len(list) : list[k].bookId = bookData})

NewestFirst(listed) ==
    \A j, k \in 1..Len(listed) : j < k => CreatedAt(listed[j]) >= CreatedAt(listed[k])

\* C20: each list panel of an open book shows exactly the records of that
\* book, ordered by createdAt descending.
C20Claim ==
    bookData # Null =>
        /\ OfTheBook(RenderBookmarks(bookmarks), bookmarks)
        /\ OfTheBook(RenderNotes(notes), notes)
        /\ OfTheBook(RenderHighlights(highlights), highlights)
        /\ NewestFirst(RenderBookmarks(bookmarks))
        /\ NewestFirst(RenderNotes(notes))
        /\ NewestFirst(RenderHighlights(highlights))

(***************************************************************************)
(* The export (checked under SpecExport).                                  *)
(***************************************************************************)
\* the records of a list that belong to the open book, in the order of the list
OfBook(list) == SelectSeq(list, LAMBDA x : x.bookId = bookData)

\* C21: exportNotesAndHighlights changes none of the three lists and no
\* stored item; with a book open the content it downloads has one item per
\* highlight and per note of that book and no other, numbered 1, 2, ... in
\* each group, and the item of a note holds the note's text.
C21Theorem ==
    [][event' = "exportNotes" =>
          /\ InMemory' = InMemory
          /\ storage' = storage
          /\ progress' = progress
          /\ bookData = Null => download' = download
          /\ bookData # Null =>
                /\ download' # None
                /\ LET content == download'[1]
                   IN  /\ Len(content.highlights) = Len(OfBook(highlights))
                       /\ Len(content.notes) = Len(OfBook(notes))
                       /\ \A i \in 1..Len(content.highlights) :
                             /\ content.highlights[i].number = i
                             /\ content.highlights[i].text = OfBook(highlights)[i].text
                       /\ \A i \in 1..Len(content.notes) :
                             /\ content.notes[i].number = i
                             /\ content.notes[i].note = OfBook(notes)[i].note
                             /\ content.notes[i].selectedText =
                                    OfBook(notes)[i].selectedText]_vars

\* an export has listed one record of the open book while the lists hold a
\* record of another book
C21Witness ==
    /\ event = "exportNotes"
    /\ download # None
    /\ Len(download[1].notes) + Len(download[1].highlights) = 1
    /\ Len(notes) + Len(highlights) = 2

(***************************************************************************)
(* Annotation handlers without a book or a selection (SpecAnnot).          *)
(***************************************************************************)
\* the handler that ran in this step ended with an uncaught exception
Raised == \E k \in 1..Len(calls') : calls'[k].op = "throw"

\* C22: addBookmark, addHighlight and saveNote without a book, and
\* addHighlight without a selected sentence, change neither the three lists
\* nor the stored document and raise nothing.
C22Claim ==
    [][(/\ event' \in AddEvents
        /\ \/ bookData = Null
           \/ event' = "addHighlight" /\ selectedSentenceId = NoSentence) =>
          /\ InMemory' = InMemory
          /\ storage' = storage
          /\ ~Raised]_vars

(***************************************************************************)
(* The sentence a new note or highlight refers to (SpecExport).            *)
(***************************************************************************)
\* the record refers to a chapter of the loaded book and to a sentence of
\* that chapter's entries
RefersToEntry(rec) ==
    /\ rec.chapter \in 0..(Len(timingData) - 1)
    /\ rec.sentenceId \in SentenceIds(rec.chapter)

\* C23: a note or highlight that a step appends has a chapter index of the
\* book and a sentenceId among the entries of that chapter, whatever
\* selections and chapter changes came before.
C23Claim ==
    [][/\ Len(notes') > Len(notes) => RefersToEntry(notes'[Len(notes')])
       /\ Len(highlights') > Len(highlights) =>
              RefersToEntry(highlights'[Len(highlights')])]_vars

\* the same for highlights alone, which are created only with a selection
HighlightsReferToEntry ==
    [][Len(highlights') > Len(highlights) =>
           RefersToEntry(highlights'[Len(highlights')])]_vars

(***************************************************************************)
(* Progress records (SpecProgress).                                        *)
(***************************************************************************)
\* the handler's call log holds the toast of a resumed book
Resumed(cs) ==
    \E k \in 1..Len(cs) :
        cs[k].op = "showToast" /\ cs[k].msg = "Resumed from where you left off"

\* the age of the stored progress record of book b
AgeOf(b) == now - Parse(progress[b][1]).updatedAt

\* a book is opened in this step: it resumes at the chapter and position of
\* its record when there is one whose age is accepted, and starts at the
\* beginning of chapter 0 otherwise
RestoresWhen(accepted(_)) ==
    event' = "initializeReader" =>
        LET b == bookData'
            call == LastLoadCall(calls')
        IN  IF progress[b] # None /\ accepted(AgeOf(b))
            THEN /\ Resumed(calls')
                 /\ call.chapter = Parse(progress[b][1]).chapter
                 /\ call.pos = Parse(progress[b][1]).position
            ELSE /\ ~Resumed(calls')
                 /\ call.chapter = 0
                 /\ call.pos = 0

Within(age) == age < ProgressTtl
NotExceeding(age) == age <= ProgressTtl

\* C24 (as the code has it): opening a book restores the saved chapter and
\* position when a record exists and is less than 30 days old; without a
\* record, or with one that is 30 days old or older, the book starts at
\* chapter 0, position 0.
C24Theorem == [][RestoresWhen(Within)]_vars

\* C24 as stated: a record is restored unless its age exceeds 30 days, so
\* that a record exactly 30 days old is still restored.
C24Claim == [][RestoresWhen(NotExceeding)]_vars

\* a book resumed from a record that is 29 days old or older
C24Witness ==
    /\ event = "initializeReader"
    /\ progress[bookData] # None
    /\ AgeOf(bookData) >= MinDays * SecondsPerDay
    /\ Resumed(calls)
    /\ currentChapter = 1

\* C25: a tick stores, under the key of the open book, the chapter and
\* position of that tick, and leaves the record of every other book as it
\* was; no other step writes a record; every record carries the bookId of
\* its key.
C25Theorem ==
    [][/\ event' = "timeupdate" =>
            /\ progress'[bookData] =
                   Some(Stringify([bookId |-> bookData, chapter |-> currentChapter',
                                   position |-> audio'.currentTime,
                                   updatedAt |-> now]))
            /\ \A b \in BookIds \ {bookData} : progress'[b] = progress[b]
       /\ event' # "timeupdate" => progress' = progress
       /\ \A b \in BookIds :
              progress'[b] # None => progress'[b][1].bookId = <<"string", b>>]_vars

\* a tick of one book at a position after the start, with a record of the
\* other book in store
C25Witness ==
    /\ event = "timeupdate"
    /\ audio.currentTime > 0
    /\ \A b \in BookIds : progress[b] # None
    /\ \E b \in BookIds : Parse(progress[b][1]).position # audio.currentTime

(***************************************************************************)
(* Search results (SpecSearch) and jumps to them (SpecJump).               *)
(***************************************************************************)
\* the sequences of a sequence, joined
RECURSIVE Flatten(_)
Flatten(seqs) == IF seqs = <<>> THEN <<>> ELSE Head(seqs) \o Flatten(Tail(seqs))

\* the sentences of a text map in document order, each as the match record
\* it would make for the query carried
AllSentences(text, carried) ==
    Flatten([c \in 1..Len(text) |->
                [k \in 1..Len(Flatten(text[c])) |->
                    [chapter |-> c - 1, chapterTitle |-> TitleOf(c - 1),
                     sentenceId |-> Flatten(text[c])[k].id,
                     text |-> Flatten(text[c])[k].text,
                     query |-> carried]]])

\* rs lists, in document order and without omission or repetition, the
\* sentences of the text map that contain the text sought when letter case
\* is ignored, each with its chapter index, chapter title, id and text and
\* with the query carried
IsSearchResult(rs, text, sought, carried) ==
    LET Contains(m) == Includes(ToLowerCase(m.text), ToLowerCase(sought))
    IN  rs = SelectSeq(AllSentences(text, carried), Contains)

\* C26 (as the code has it): with a book open, a search for an input that
\* is not empty after trimming yields exactly the sentences, in document
\* order, whose text contains the trimmed input when case is ignored; each
\* match carries chapter index, chapter title, sentence id, sentence text
\* and the trimmed, lower-cased input; nothing is raised, also when nothing
\* matches. An input of spaces only leaves the panel as it was.
C26Theorem ==
    [][(event' = "performSearch" /\ bookData # Null) =>
          LET value == input'[1]
          IN  /\ ~Raised
              /\ IF Trim(value) = <<>> THEN searchPanel' = searchPanel
                 ELSE /\ searchPanel' # None
                      /\ IsSearchResult(searchPanel'[1].results, textData,
                                        Trim(value), ToLowerCase(Trim(value)))]_vars

\* C26 as stated: for every non-empty query the result is exactly the
\* sentences, in document order, that contain the query when case is
\* ignored, each carrying the query.
C26Claim ==
    [][(event' = "performSearch" /\ bookData # Null /\ input'[1] # <<>>) =>
          /\ ~Raised
          /\ searchPanel' # None
          /\ IsSearchResult(searchPanel'[1].results, textData, input'[1], input'[1])]_vars

\* a search typed with a capital letter or spaces around it that finds
\* sentences of both chapters and leaves out another sentence
C26Witness ==
    /\ event = "performSearch"
    /\ searchPanel # None
    /\ input[1] # ToLowerCase(Trim(input[1]))
    /\ LET rs == searchPanel[1].results
       IN  /\ Len(rs) = 2
           /\ rs[1].chapter = 0
           /\ rs[2].chapter = 1
           /\ Len(AllSentences(textData, <<>>)) = 3

\* C27: the search panel shows the first 50 entries of the result list, in
\* the order of the list (all of them when there are at most 50), and
\* reports the length of the whole list as the count; for an empty list it
\* shows no items and no count.
C27Theorem ==
    searchPanel # None =>
        LET panel == searchPanel[1]
            total == Len(panel.results)
        IN  /\ Len(panel.items) = IF total <= DisplayLimit THEN total ELSE DisplayLimit
            /\ \A k \in 1..Len(panel.items) :
                   /\ panel.items[k].sentence = panel.results[k].sentenceId
                   /\ panel.items[k].chapter = ToString(panel.results[k].chapter)
                   /\ panel.items[k].chapterTitle = panel.results[k].chapterTitle
            /\ panel.count = IF total = 0 THEN None ELSE Some(total)

\* a result list longer than the panel shows
C27Witness ==
    /\ searchPanel # None
    /\ Len(searchPanel[1].results) > DisplayLimit
    /\ Len(searchPanel[1].items) = DisplayLimit
    /\ searchPanel[1].count = Some(Len(searchPanel[1].results))

\* the handler's call log holds a seek to the sentence
SoughtSentence(cs, sentenceId) ==
    \E k \in 1..Len(cs) : cs[k].op = "seekToSentence" /\ cs[k].id = sentenceId

\* C28: a click on the search match of chapter c and sentence s loads
\* chapter c when it is not the current one; when the jump is complete (at
\* once in the current chapter, with the 500 ms timeout in another one) the
\* audio has been sent to s and s carries 'search-match'.
C28Claim ==
    [][/\ event' = "jumpToSearchResult" =>
            LET item == searchPanel[1].items[input'[1]]
                c == ParseInt(item.chapter)
            IN  IF c # currentChapter
                THEN /\ LoadCalls(calls') # {}
                     /\ LastLoadCall(calls').chapter = c
                     /\ currentChapter' = c
                ELSE /\ LoadCalls(calls') = {}
                     /\ SoughtSentence(calls', item.sentence)
                     /\ item.sentence \in searchMatch'
       /\ \A t \in timers \ timers' :
              (/\ event' = "timeout"
               /\ t.kind = "searchHighlight"
               /\ t.sentenceId \in DOMAIN sentenceClass) =>
                  /\ SoughtSentence(calls', t.sentenceId)
                  /\ t.sentenceId \in searchMatch']_vars

\* the part of C28 that holds: the chapter load, the seek in both cases and
\* the flag after the timeout
JumpLoadsAndSeeks ==
    [][/\ event' = "jumpToSearchResult" =>
            LET item == searchPanel[1].items[input'[1]]
                c == ParseInt(item.chapter)
            IN  IF c # currentChapter
                THEN /\ LoadCalls(calls') # {}
                     /\ LastLoadCall(calls').chapter = c
                     /\ currentChapter' = c
                ELSE /\ LoadCalls(calls') = {}
                     /\ SoughtSentence(calls', item.sentence)
       /\ \A t \in timers \ timers' :
              (/\ event' = "timeout"
               /\ t.kind = "searchHighlight"
               /\ t.sentenceId \in DOMAIN sentenceClass) =>
                  /\ SoughtSentence(calls', t.sentenceId)
                  /\ t.sentenceId \in searchMatch']_vars

(***************************************************************************)
(* Corrupt and full storage (SpecStorage).                                 *)
(***************************************************************************)
\* the handler's call log holds the toast
Toasted(cs, msg) == \E k \in 1..Len(cs) : cs[k].op = "showToast" /\ cs[k].msg = msg

\* a book opened over corrupt stored texts starts with empty lists at the
\* beginning of chapter 0, and nothing is raised
RecoversFromCorrupt ==
    [][(event' = "initializeReader" /\ storage = Some(Corrupt)
            /\ progress[bookData'] = Some(Corrupt)) =>
          /\ ~Raised
          /\ bookData' # Null
          /\ InMemory' = [bookmarks |-> <<>>, notes |-> <<>>, highlights |-> <<>>]
          /\ ~Resumed(calls')
          /\ currentChapter' = 0]_vars

\* the sleep timer set in minutes has run out
TimerDue == sleepTimerMode = "minutes" /\ sleepTimerEnd # None /\ sleepTimerEnd[1] <= now

\* C29: a book opens over corrupt stored texts with empty lists and no
\* progress and without an exception; with the storage full, an added
\* bookmark is still in the list and the handler runs to its end (the toast
\* is shown, nothing is raised), and a tick still runs its remaining steps:
\* a sleep timer that is due pauses the audio and is cleared.
C29Claim ==
    [][/\ (event' = "initializeReader" /\ storage = Some(Corrupt)) =>
            /\ ~Raised
            /\ bookData' # Null
            /\ InMemory' = [bookmarks |-> <<>>, notes |-> <<>>, highlights |-> <<>>]
       /\ (event' = "addBookmark" /\ bookData # Null /\ storageFull) =>
            /\ Len(bookmarks') = Len(bookmarks) + 1
            /\ ~Raised
            /\ Toasted(calls', "Bookmark added")
       /\ (event' = "timeupdate" /\ storageFull) =>
            /\ ~Raised
            /\ TimerDue => audio'.paused /\ sleepTimerEnd' = None]_vars

\* the part of C29 about the in-memory change: with the storage full an
\* added bookmark is in the list, and the stored document stays as it was
AppliedInMemory ==
    [][(event' = "addBookmark" /\ bookData # Null /\ storageFull) =>
          /\ Len(bookmarks') = Len(bookmarks) + 1
          /\ storage' = storage]_vars

\* a tick with a full storage at the deadline of the sleep timer, after
\* which the audio still plays
PlaysPastDeadline ==
    /\ event = "timeupdate"
    /\ storageFull
    /\ TimerDue
    /\ ~audio.paused

(***************************************************************************)
(* Book loads with a part missing or malformed (SpecParts).                *)
(***************************************************************************)
\* C30: a load in which the manifest, the timing map or the text map is
\* missing or malformed shows an error and leaves bookData, timingData and
\* textData as they were.
C30Claim ==
    [][event' = "loadBookFromPath" =>
          /\ Toasted(calls', "Error loading book")
          /\ bookData' = bookData
          /\ timingData' = timingData
          /\ textData' = textData]_vars

\* the part of C30 that holds: after a load that failed, the reader has no
\* book unless the manifest was read, and never a map without the manifest
ManifestFirst ==
    /\ event = "loadBookFromPath" /\ bookData = Null =>
           /\ timingData = <<>>
           /\ textData = <<>>
           /\ Toasted(calls, "Error loading book")
    /\ bookData = Null => timingData = <<>> /\ textData = <<>>

\* a manifest retained without its timing map, and one retained without
\* its text map and without an error shown
ManifestWithoutMaps ==
    /\ event = "loadBookFromPath"
    /\ bookData # Null
    /\ \/ timingData = <<>>
       \/ textData = <<>> /\ ~Toasted(calls, "Error loading book")

(***************************************************************************)
(* Auto-scroll (SpecScroll).                                               *)
(***************************************************************************)
\* the reader scrolls the text, or a smooth scroll comes to rest: other
\* spans lie outside the safe band
Scroll(ids) ==
    /\ bookData # Null
    /\ outsideBand # ids
    /\ outsideBand' = ids
    /\ event' = "scroll"
    /\ calls' = <<>>
    /\ UNCHANGED <<loadVars, annotVars, progress, storageFull, download, searchPanel,
                   searchMatch, settingVars, textReader, touchVars, input, now,
                   currentChapter, currentSentenceIndex, isPlaying, sleepTimerMode,
                   sleepTimerEnd, audio, sentenceClass, timers, timerPauses>>

NextScroll ==
    \/ LoadBook(MainBook, "base", {})
    \/ TimeUpdate
    \/ ProgressBarClick(1)
    \/ PlayPauseClick
    \/ LoadedMetadata
    \/ DispatchMediaEvent
    \/ \E checked \in BOOLEAN : AutoScrollChange(checked)
    \/ \E ids \in SUBSET DOMAIN sentenceClass : Scroll(ids)

SpecScroll == Init /\ [][NextScroll]_vars

ScrollCalls(log) == {k \in 1..Len(log) : log[k].op = "scrollTo"}

NextLatch ==
    \/ LoadBook(MainBook, "base", {})
    \/ TimeUpdate
    \/ PlayPauseClick
    \/ SentenceClick(1)
    \/ SkipForwardClick
    \/ PrevChapterClick
    \/ NextChapterClick
    \/ bookmarks = <<>> /\ AddBookmark
    \/ \E id \in ListedIds(bookmarks) : RemoveBookmark(id)
    \/ \E v \in {"0", "chapter"} : SleepTimerClick(v)
    \/ LoadedMetadata
    \/ DispatchMediaEvent

SpecLatch == Init /\ [][NextLatch]_vars

\* C33: once the sleep timer is in end-of-chapter mode, only setSleepTimer
\* and the end of a chapter take it out of that mode.
C33Theorem ==
    [][sleepTimerMode = "chapter" /\ sleepTimerMode' # "chapter" =>
          event' \in {"setSleepTimer", "ended"}]_vars

\* the end-of-chapter mode has outlasted a manual change to the second
\* chapter, a tick there and an added bookmark
C33Witness ==
    /\ sleepTimerMode = "chapter"
    /\ currentChapter = 1
    /\ currentSentenceIndex = 0
    /\ bookmarks # <<>>
    /\ event = "pause"

(***************************************************************************)
(* The audio source after loads and load errors (SpecLoad).                *)
(***************************************************************************)
\* C34: with a base path the audio source is the MP3 or the WAV of the
\* current chapter, whatever loads and load errors came before.
C34Claim ==
    audioBasePath # Null /\ audio.src # NoSrc =>
        audio.src \in {FileOf(currentChapter, "mp3"), FileOf(currentChapter, "wav")}

\* the part of C34 that holds: a load always leaves the MP3 of its chapter
\* as the source
LoadSetsPreferred ==
    [][LoadCalls(calls') # {} /\ audioBasePath' # Null =>
          audio'.src = FileOf(currentChapter', "mp3")]_vars

\* after a load error the source is a file of another chapter
StaleFallback ==
    /\ event = "error"
    /\ audioBasePath # Null
    /\ audio.src # NoSrc
    /\ audio.src.chapter # currentChapter

(***************************************************************************)
(* The ids of annotation records (SpecAnnot).                              *)
(***************************************************************************)
DistinctIds(list) ==
    \A i, j \in 1..Len(list) : i # j => list[i].id # list[j].id

HasId(list, id) == \E k \in 1..Len(list) : list[k].id = id

\* C36: the records of a list have distinct ids, and removing a listed
\* bookmark, note or highlight by its id takes exactly one record away.
C36Claim ==
    [][/\ DistinctIds(bookmarks') /\ DistinctIds(notes') /\ DistinctIds(highlights')
       /\ event' = "removeBookmark" /\ HasId(bookmarks, input'[1]) =>
              Len(bookmarks') = Len(bookmarks) - 1
       /\ event' = "removeNote" /\ HasId(notes, input'[1]) =>
              Len(notes') = Len(notes) - 1
       /\ event' = "removeHighlight" /\ HasId(highlights, input'[1]) =>
              Len(highlights') = Len(highlights) - 1]_vars

\* two bookmarks of one book with the same id are listed and stored
SameIdTwice ==
    /\ Len(bookmarks) = 2
    /\ bookmarks[1].id = bookmarks[2].id
    /\ bookmarks[1].bookId = bookmarks[2].bookId
    /\ storage = SaveBookData(bookmarks, notes, highlights)

(***************************************************************************)
(* The progress item shared with the text-only reader and the PDF reader   *)
(* (SpecShared).  The two other readers are pages of their own; of them    *)
(* only the writes of the item 'readalong-progress-<bookId>' are taken.    *)
(***************************************************************************)
\* what no handler of the read-along reader runs on: everything but the
\* stored progress, the history and the clock
readerVars == <<loadVars, annotVars, pageVars, searchMatch, touchVars, currentChapter,
                currentSentenceIndex, isPlaying, sleepTimerMode, sleepTimerEnd, audio,
                sentenceClass, timers, timerPauses>>

\* TextReader.saveProgress() (reader-text.js) of the book bookId with the
\* text reader at its chapter chapter
TextSaveProgress(bookId, chapter) ==
    /\ bookData = Null
    /\ progress' = [progress EXCEPT ![bookId] =
           SetItem(@, Some(Stringify([bookId |-> bookId, chapter |-> chapter,
                                      position |-> 0, updatedAt |-> now])))]
    /\ event' = "textSaveProgress"
    /\ calls' = <<>>
    /\ input' = <<chapter>>
    /\ UNCHANGED <<readerVars, now>>

\* PDFReader.saveProgress() of the book bookId at the page page
PdfSaveProgress(bookId, page) ==
    /\ bookData = Null
    /\ progress' = [progress EXCEPT ![bookId] =
           SetItem(@, Some(Stringify([bookId |-> bookId, chapter |-> 0, position |-> 0,
                                      page |-> page, updatedAt |-> now])))]
    /\ event' = "pdfSaveProgress"
    /\ calls' = <<>>
    /\ input' = <<page>>
    /\ UNCHANGED <<readerVars, now>>

NextShared ==
    \/ \E bookId \in BookIds : LoadBookAs(bookId, MainBook, "base", {})
    \/ Reload
    \/ \E bookId \in BookIds, chapter \in 0..(MaxTextChapters - 1) :
           TextSaveProgress(bookId, chapter)
    \/ \E bookId \in BookIds, page \in 1..MaxPage : PdfSaveProgress(bookId, page)
    \/ PrevChapterClick
    \/ NextChapterClick
    \/ LoadedMetadata
    \/ TimeUpdate
    \/ SecondPasses
    \/ \E d \in {MinDays} : DaysPass(d)

SpecShared == Init /\ [][NextShared]_vars

\* C37: with a book open the current chapter is a chapter of the timing
\* map, and loadChapter is never called with another index, whatever the
\* progress item of the book holds.
C37Claim ==
    bookData # Null =>
        /\ currentChapter \in Chapters
        /\ \A k \in LoadCalls(calls) : calls[k].chapter \in Chapters

\* the part of C37 that holds: a progress item written by the read-along
\* reader itself or by the PDF reader restores a chapter of the timing map
C37OwnProgress ==
    [][/\ event' = "initializeReader"
       /\ progress[bookData'] # None
       /\ Parse(progress[bookData'][1]).chapter \in 0..(Len(timingData') - 1)
       => currentChapter' \in 0..(Len(timingData') - 1)]_vars

\* the book was opened on a progress item of the text reader: the current
\* chapter is past the timing map, no text is rendered and no audio is set
OpenedPastTheEnd ==
    /\ event = "initializeReader"
    /\ currentChapter >= ChapterCount
    /\ \E k \in 1..Len(calls) : calls[k].op = "throw" /\ calls[k].msg = "TypeError"
    /\ Toasted(calls, "Resumed from where you left off")
    /\ audio.src = NoSrc
    /\ DOMAIN sentenceClass = {}

(***************************************************************************)
(* A text-only page open beside the read-along reader, both on the item    *)
(* 'readalong-bookdata' (SpecInstances).  The text reader holds its own    *)
(* lists of highlights and notes, read once when the page opens.           *)
(***************************************************************************)
\* what the handlers of the text reader leave alone
textFrame == <<loadVars, notes, bookmarks, highlights, selectedSentenceId, progress,
               storageFull, download, searchPanel, settingVars, outsideBand,
               searchMatch, touchVars, now, currentChapter, currentSentenceIndex,
               isPlaying, sleepTimerMode, sleepTimerEnd, audio, sentenceClass, timers,
               timerPauses>>

TextAnnotationCount == Len(textReader.highlights) + Len(textReader.notes)

\* TextReader.loadBookData(): the constructor's empty lists stay when there
\* is no item or JSON.parse throws
TextLoadBookData(saved) ==
    IF saved = None \/ saved = Some(Corrupt)
    THEN [highlights |-> <<>>, notes |-> <<>>]
    ELSE [highlights |-> ParseAll(saved[1].highlights), notes |-> ParseAll(saved[1].notes)]

\* TextReader.saveBookData(): the bookmarks are taken from the stored item,
\* the highlights and notes from the text reader's lists
TextSaveBookData(saved, hl, nt) ==
    Some([bookmarks |-> IF saved = None \/ saved = Some(Corrupt) THEN <<>>
                        ELSE saved[1].bookmarks,
          notes |-> StringifyAll(nt),
          highlights |-> StringifyAll(hl)])

\* the text-only page is opened on the book bookId: init()
TextOpen(bookId) ==
    /\ textReader = NoTextReader
    /\ LET data == TextLoadBookData(storage)
       IN  textReader' = [bookId |-> bookId, currentChapter |-> 0,
                          highlights |-> data.highlights, notes |-> data.notes]
    /\ event' = "textInit"
    /\ calls' = <<>>
    /\ input' = <<bookId>>
    /\ UNCHANGED <<textFrame, storage>>

\* the lists of the text reader become hl and nt and are saved
TextCommit(hl, nt, ev) ==
    /\ textReader' = [textReader EXCEPT !.highlights = hl, !.notes = nt]
    /\ storage' = SetItem(storage, TextSaveBookData(storage, hl, nt))
    /\ event' = ev
    /\ calls' = IF storageFull THEN Throw([calls |-> <<>>], "QuotaExceededError").calls
                ELSE <<>>
    /\ UNCHANGED textFrame

\* TextReader.addHighlight(text, color)
TextAddHighlight(text, color) ==
    /\ textReader # NoTextReader
    /\ TextAnnotationCount < MaxAnnotations
    /\ TextCommit(Append(textReader.highlights,
                         [id |-> "hl-" \o ToString(now),
                          bookId |-> textReader.bookId,
                          chapter |-> textReader.currentChapter,
                          text |-> text,
                          color |-> color,
                          createdAt |-> ToString(now)]),
                  textReader.notes, "textAddHighlight")
    /\ input' = <<"hl-" \o ToString(now)>>

\* TextReader.addNote(text, noteContent, color)
TextAddNote(text, noteContent, color) ==
    /\ textReader # NoTextReader
    /\ TextAnnotationCount < MaxAnnotations
    /\ TextCommit(textReader.highlights,
                  Append(textReader.notes,
                         [id |-> "note-" \o ToString(now),
                          bookId |-> textReader.bookId,
                          chapter |-> textReader.currentChapter,
                          selectedText |-> text,
                          note |-> noteContent,
                          color |-> color,
                          createdAt |-> ToString(now)]),
                  "textAddNote")
    /\ input' = <<"note-" \o ToString(now)>>

\* TextReader.removeHighlight(id)
TextRemoveHighlight(id) ==
    /\ textReader # NoTextReader
    /\ TextCommit(WithoutId(textReader.highlights, id), textReader.notes,
                  "textRemoveHighlight")
    /\ input' = <<id>>

\* TextReader.removeNote(id)
TextRemoveNote(id) ==
    /\ textReader # NoTextReader
    /\ TextCommit(textReader.highlights, WithoutId(textReader.notes, id),
                  "textRemoveNote")
    /\ input' = <<id>>

IdsOf(list) == {list[k].id : k \in 1..Len(list)}

NextInstances ==
    \/ LoadBook(MainBook, "base", {})
    \/ TextOpen("book")
    \/ AddBookmark
    \/ SaveNote("n")
    \/ \E id \in IdsOf(bookmarks) : RemoveBookmark(id)
    \/ \E id \in IdsOf(notes) : RemoveNote(id)
    \/ TextAddHighlight("t", "yellow")
    \/ TextAddNote("t", "n", "yellow")
    \/ \E id \in IdsOf(textReader.highlights) : TextRemoveHighlight(id)
    \/ \E id \in IdsOf(textReader.notes) : TextRemoveNote(id)

SpecInstances == Init /\ [][NextInstances]_vars

\* the stored records of a list of the stored item
Stored(saved, list) ==
    IF saved = None \/ saved = Some(Corrupt) THEN {}
    ELSE {saved[1][list][k] : k \in 1..Len(saved[1][list])}

TextEvents == {"textAddHighlight", "textAddNote", "textRemoveHighlight", "textRemoveNote"}
AnnotationEvents ==
    TextEvents \cup RemoveEvents \cup {"addBookmark", "addHighlight", "saveNote"}

\* every stored record but those with the id is still stored after the step
KeepsAllBut(ids) ==
    \A list \in {"bookmarks", "notes", "highlights"} :
        \A rec \in Stored(storage, list) :
            rec.id[2] \notin ids => rec \in Stored(storage', list)

\* C38: with both readers open on the stored item, an add or a remove of
\* either of them leaves every stored record in the item, except the record
\* it removes.
C38Claim ==
    [][event' \in AnnotationEvents =>
          KeepsAllBut(IF event' \in RemoveEvents \cup
                                    {"textRemoveHighlight", "textRemoveNote"}
                      THEN {input'[1]} ELSE {})]_vars

\* the part of C38 that holds: the text reader never loses a bookmark, and
\* a reader alone on the item loses nothing
C38SingleWriter ==
    [][/\ event' \in TextEvents => Stored(storage', "bookmarks") = Stored(storage, "bookmarks")
       /\ (event' \in AnnotationEvents /\ event' \notin TextEvents
              /\ textReader = NoTextReader) =>
              KeepsAllBut(IF event' \in RemoveEvents THEN {input'[1]} ELSE {})]_vars

\* a note of the text reader has been dropped from the stored item by an
\* add of the read-along reader
LostRecord ==
    /\ event = "addBookmark"
    /\ textReader.notes # <<>>
    /\ Stored(storage, "bookmarks") # {}
    /\ Stored(storage, "notes") = {}

(***************************************************************************)
(* The marks of the rendered sentences (SpecExport).                       *)
(***************************************************************************)
\* array.find(x => x.sentenceId === sentence.id) finds a record
FindsSentence(list, s) ==
    \E k \in 1..Len(list) : "sentenceId" \in DOMAIN list[k] /\ list[k].sentenceId = s

\* the classes 'has-note' and 'highlighted' renderText gives the spans of
\* the sentences ids, with the notes nt and the highlights hl
RenderMarks(ids, nt, hl) ==
    [s \in ids |-> [hasNote |-> FindsSentence(nt, s),
                    highlighted |-> FindsSentence(hl, s)]]

\* a record of the list for the sentence s of the chapter c of the book b
RecordFor(list, b, c, s) ==
    \E k \in 1..Len(list) :
        /\ "sentenceId" \in DOMAIN list[k]
        /\ list[k].bookId = b
        /\ list[k].chapter = c
        /\ list[k].sentenceId = s

\* C39: when a chapter is rendered, a sentence gets the class 'has-note' or
\* 'highlighted' only if a note or a highlight of the open book and of that
\* chapter has its sentence id.
C39Claim ==
    [][LoadCalls(calls') # {} =>
          LET marks == RenderMarks(DOMAIN sentenceClass', notes', highlights')
          IN  \A s \in DOMAIN marks :
                  /\ marks[s].hasNote =>
                         RecordFor(notes', bookData', currentChapter', s)
                  /\ marks[s].highlighted =>
                         RecordFor(highlights', bookData', currentChapter', s)]_vars

\* a book has been opened whose first sentence is marked as having a note,
\* and the only note for that sentence id belongs to the other book
MarkedByOtherBook ==
    /\ event = "initializeReader"
    /\ RenderMarks(DOMAIN sentenceClass, notes, highlights)[1].hasNote
    /\ \A k \in 1..Len(notes) : notes[k].bookId # bookData

(***************************************************************************)
(* The countdown around its deadline (SpecSleep).                          *)
(***************************************************************************)
\* C40: a tick of a countdown before its deadline pauses nothing and leaves
\* the countdown; a tick at or after the deadline leaves the audio paused
\* and the timer idle, whether or not playback was paused when the deadline
\* passed, so no tick leaves a countdown that is past its deadline.
C40Theorem ==
    /\ []((event = "timeupdate" /\ sleepTimerMode = "minutes") => now < sleepTimerEnd[1])
    /\ [][(event' = "timeupdate" /\ sleepTimerMode = "minutes") =>
             IF now < sleepTimerEnd[1]
             THEN /\ timerPauses' = timerPauses
                  /\ audio'.paused = audio.paused
                  /\ sleepTimerMode' = "minutes"
                  /\ sleepTimerEnd' = sleepTimerEnd
             ELSE /\ timerPauses' = timerPauses + 1
                  /\ audio'.paused
                  /\ sleepTimerMode' = Null]_vars

\* the countdown's deadline passed with nothing played; playback was then
\* started, and its first tick, still at position 0, has paused the playing
\* element and ended the countdown
C40Witness ==
    /\ event = "timeupdate"
    /\ now > MaxSetNow + MaxMinutes * SecondsPerMinute
    /\ timerPauses = 1
    /\ sleepTimerMode = Null
    /\ isPlaying
    /\ audio.paused
    /\ audio.currentTime = 0
    /\ audio.events = <<"pause">>
    /\ Issued(calls, "pause")

(***************************************************************************)
(* Settings across reloads (SpecSettings).                                 *)
(***************************************************************************)
NextSettings ==
    \/ Construct
    \/ \E speed \in Speeds : SpeedClick(speed)
    \/ \E delta \in {-FontStep, FontStep} : FontSizeClick(delta)
    \/ \E newTheme \in Themes : ThemeClick(newTheme)
    \/ \E checked \in BOOLEAN : AutoScrollChange(checked)
    \/ \E delta \in {-ZoomStep, ZoomStep} : ZoomPage(delta)

SpecSettings == Init /\ [][NextSettings]_vars

\* C31: after setSpeed(m) the playback speed and the playback rate of the
\* audio element are m and the stored settings record speed m; a reader
\* constructed on stored settings takes its playback speed from them.
C31Theorem ==
    [][/\ event' = "setSpeed" =>
              /\ playbackSpeed' = input'[1]
              /\ audio'.playbackRate = input'[1]
              /\ settings' # None
              /\ ParseSettings(settings'[1]).speed = input'[1]
       /\ event' = "constructor" /\ settings # None =>
              /\ playbackSpeed' = ParseSettings(settings[1]).speed
              /\ audio'.playbackRate = ParseSettings(settings[1]).speed]_vars

\* a new reader that has restored a speed other than the default
C31Witness ==
    /\ event = "constructor"
    /\ settings # None
    /\ playbackSpeed # DefaultSpeed
    /\ playbackSpeed = ParseSettings(settings[1]).speed

\* C35: constructing the reader on stored settings leaves the stored
\* settings as they were and restores the stored auto-scroll preference and
\* page zoom, reload after reload.
C35Claim ==
    [][event' = "constructor" /\ settings # None =>
          /\ settings' = settings
          /\ autoScroll' = ParseSettings(settings[1]).autoScroll
          /\ pageZoom' = ParseSettings(settings[1]).pageZoom]_vars

\* the part of C35 that holds: the first construction restores the stored
\* auto-scroll preference and zoom in memory, and the stored font size,
\* theme and speed stay
C35InMemory ==
    [][event' = "constructor" /\ settings # None =>
          /\ autoScroll' = ParseSettings(settings[1]).autoScroll
          /\ pageZoom' = ParseSettings(settings[1]).pageZoom
          /\ ParseSettings(settings'[1]).fontSize = ParseSettings(settings[1]).fontSize
          /\ ParseSettings(settings'[1]).theme = ParseSettings(settings[1]).theme
          /\ ParseSettings(settings'[1]).speed = ParseSettings(settings[1]).speed]_vars

\* a reader constructed on settings stored with auto-scroll off: the stored
\* settings now say on
AutoScrollOverwritten ==
    /\ event = "constructor"
    /\ ~autoScroll
    /\ settings # None
    /\ ParseSettings(settings[1]).autoScroll

====
